---- MODULE Spec2Model ----
(***************************************************************************)
(* Fair Play card manager: Google Sheets synchronisation.                  *)
(*                                                                         *)
(* Two specifications over one set of variables:                           *)
(*   MergeSpec  the pure merge functions of useGoogleSheetsSync.ts applied *)
(*              to bounded remote row lists and local card lists;          *)
(*   Spec       the sync orchestration: the sync store, IndexedDB, the     *)
(*              App.vue handlers and the asynchronous sync / autoSync      *)
(*              tasks, interleaved at their await points.                  *)
(***************************************************************************)
EXTENDS Integers, Sequences, FiniteSets, Bags, TLC

(***************************************************************************)
(* Bounds                                                                  *)
(***************************************************************************)
\* longest remote row list given to the merge functions
MaxRows == 2
\* largest timestamp of a remote row or local card given to the merge functions
MaxTime == 2

(***************************************************************************)
(* Values                                                                  *)
(***************************************************************************)
\* JavaScript undefined: an absent id, an absent lastUpdated, an absent card
Undefined == "undefined"
NoTime == -1
NoCard == [cardName |-> Undefined]

\* src/utils/cardId.ts INFORMATIONAL_CARDS
INFORMATIONAL_CARDS == {"CONCIEVE. PLAN. EXECUTE.", "MINIMUM STANDARD OF CARE"}

shouldCardHaveId(cardName) == cardName \notin INFORMATIONAL_CARDS

assignmentToInteger(assignment) ==
  CASE assignment = "unassigned" -> 0
    [] assignment = "player1" -> 1
    [] assignment = "player2" -> 2
    [] assignment = "shared" -> 3
    [] OTHER -> 0

\* a decoding that mixes up the codes of player2 and shared
integerToAssignment_Swapped(value) ==
  CASE value = 0 -> "unassigned"
    [] value = 1 -> "player1"
    [] value = 2 -> "shared"
    [] value = 3 -> "player2"
    [] OTHER -> "unassigned"

integerToAssignment(value) ==
  CASE value = 0 -> "unassigned"
    [] value = 1 -> "player1"
    [] value = 2 -> "player2"
    [] value = 3 -> "shared"
    [] OTHER -> "unassigned"

\* new Date(s).getTime() of a present timestamp; the local side counts an
\* absent lastUpdated as 0
SheetTime(sheetCard) == sheetCard.lastUpdated
LocalTime(localCard) ==
  IF localCard.lastUpdated # NoTime THEN localCard.lastUpdated ELSE 0

\* notes || ""
NotesOrEmpty(notes) == IF notes = Undefined THEN "" ELSE notes

(***************************************************************************)
(* Merge engine (pure)                                                     *)
(***************************************************************************)
\* new Map built by forEach + set: the last element of that name wins
RECURSIVE MapGet(_, _)
MapGet(cards, cardName) ==
  IF cards = <<>> THEN NoCard
  ELSE IF cards[Len(cards)].cardName = cardName THEN cards[Len(cards)]
  ELSE MapGet(SubSeq(cards, 1, Len(cards) - 1), cardName)

HasName(cards, cardName) == \E i \in 1..Len(cards) : cards[i].cardName = cardName

\* the entity built from a sheet row alone, notes taken from the argument
SheetEntity(sheetCard, notes) ==
  [cardName |-> sheetCard.cardName,
   id |-> sheetCard.cardId,
   assignment |-> integerToAssignment(sheetCard.assignment),
   notes |-> notes,
   trimmed |-> (sheetCard.trimmed = 1),
   lastUpdated |-> sheetCard.lastUpdated]

\* a merge step whose sheet-wins branch keeps the local trimmed flag
MergeRow_KeepsLocalTrimmed(sheetCard, localCard) ==
  IF localCard # NoCard
  THEN IF SheetTime(sheetCard) > LocalTime(localCard)
       THEN [SheetEntity(sheetCard, NotesOrEmpty(localCard.notes))
               EXCEPT !.trimmed = localCard.trimmed]
       ELSE [localCard EXCEPT !.id = sheetCard.cardId]
  ELSE SheetEntity(sheetCard, "")

\* a merge step that builds a sheet-only entity without decoding its trimmed flag
MergeRow_SheetOnlyUntrimmed(sheetCard, localCard) ==
  IF localCard # NoCard
  THEN IF SheetTime(sheetCard) > LocalTime(localCard)
       THEN SheetEntity(sheetCard, NotesOrEmpty(localCard.notes))
       ELSE [localCard EXCEPT !.id = sheetCard.cardId]
  ELSE [SheetEntity(sheetCard, "") EXCEPT !.trimmed = FALSE]

\* body of the first loop of mergeCardData for one sheet row
MergeRow(sheetCard, localCard) ==
  IF localCard # NoCard
  THEN IF SheetTime(sheetCard) > LocalTime(localCard)
       THEN SheetEntity(sheetCard, NotesOrEmpty(localCard.notes))
       ELSE [localCard EXCEPT !.id = sheetCard.cardId]
  ELSE SheetEntity(sheetCard, "")

\* a second loop that rebuilds the local-only cards without their id
LocalOnly_DropsId(sheetData, localCards) ==
  LET kept == SelectSeq(localCards, LAMBDA c : ~HasName(sheetData, c.cardName))
  IN [k \in 1..Len(kept) |-> [kept[k] EXCEPT !.id = Undefined]]

\* the second loop of both merge functions: local cards that are not in the sheet
LocalOnly(sheetData, localCards) ==
  SelectSeq(localCards, LAMBDA c : ~HasName(sheetData, c.cardName))

\* a merge that lists the local-only cards before the sheet rows
mergeCardData_LocalFirst(sheetData, localCards) ==
  LocalOnly(sheetData, localCards)
  \o [i \in 1..Len(sheetData) |->
       MergeRow(sheetData[i], MapGet(localCards, sheetData[i].cardName))]

mergeCardData(sheetData, localCards) ==
  [i \in 1..Len(sheetData) |->
     MergeRow(sheetData[i], MapGet(localCards, sheetData[i].cardName))]
  \o LocalOnly(sheetData, localCards)

\* a use-sheet step that still compares the timestamps
UseSheetRow_ComparesTimes(sheetCard, localCard) ==
  IF localCard # NoCard /\ SheetTime(sheetCard) <= LocalTime(localCard)
  THEN [localCard EXCEPT !.id = sheetCard.cardId]
  ELSE SheetEntity(sheetCard,
                   IF localCard = NoCard THEN "" ELSE NotesOrEmpty(localCard.notes))

\* a use-sheet step that builds the entity from the sheet row alone
UseSheetRow_DropsNotes(sheetCard, localCard) == SheetEntity(sheetCard, "")

\* body of the use-sheet loop for one sheet row
UseSheetRow(sheetCard, localCard) ==
  SheetEntity(sheetCard,
              IF localCard = NoCard THEN "" ELSE NotesOrEmpty(localCard.notes))

mergeCardDataWithPreference(sheetData, localCards, strategy) ==
  IF strategy = "use-sheet"
  THEN [i \in 1..Len(sheetData) |->
          UseSheetRow(sheetData[i], MapGet(localCards, sheetData[i].cardName))]
       \o LocalOnly(sheetData, localCards)
  ELSE mergeCardData(sheetData, localCards)

(***************************************************************************)
(* State                                                                   *)
(***************************************************************************)
VARIABLES
  \* useSyncStore refs
  isSyncing, error, googleSheetUrl, hasSyncedBefore, lastSyncTime,
  \* localStorage keys fairPlay_googleSheetUrl / hasSyncedBefore / lastSyncTime
  localStorage,
  \* IndexedDB object store "cards", keyed by cardName
  db,
  \* the wall clock read by new Date()
  now,
  \* the asynchronous operations suspended at an await: sync(), autoSync(),
  \* and the preview pull of the first-connection handshake
  tasks,
  \* debouncedAutoSync's pending timer, App.vue's dialog flag
  debounceTimeout, showMergeStrategyDialog,
  \* history: what the last step did
  ev,
  \* inputs and outputs of the merge functions (MergeSpec)
  sheetData, localCards, merged, mergedUseSheet, remerged, phase,
  \* two clients and their spreadsheet (DeviceSpec): each client's IndexedDB,
  \* the cells of the sheet, the time of the user edit each stored value stems
  \* from (history), what the last step did (history), and the clients that
  \* have completed a sync (history)
  devices, sheet, stems, moved, synced,
  \* the debounced auto-sync (DebounceSpec): the timers set and not yet run or
  \* cleared, the promise returned by each call, the autoSync runs awaiting
  \* syncToSheet, and as history the time of each call and of each autoSync
  timers, promises, runs, calls, invoked,
  \* the rows syncToSheet builds (PushSpec): the cards in IndexedDB, the rows
  \* built from them, the assignments read back from those rows, and a sheet
  \* code with its decoding encoded again
  stored, payload, decoded, code, recoded,
  \* a call of syncFromSheet (PullSpec): the url it is given, what the
  \* endpoint answers, and what the call returns or throws
  endpoint, response, pulled,
  \* the id migration at start-up (MigrateSpec): the cards in IndexedDB, the
  \* cards before the last run of the migration (history), and the number
  \* each run returned
  cardStore, previous, updatedCounts,
  \* one sync() and the user editing meanwhile (EditRaceSpec): the cards in
  \* IndexedDB, the position of sync() with the merge result it holds, and as
  \* history the values the user wrote after sync() had read the local cards
  idb, syncRun, edited

sysVars == <<isSyncing, error, googleSheetUrl, hasSyncedBefore, lastSyncTime,
             localStorage, db, now, tasks, debounceTimeout,
             showMergeStrategyDialog, ev>>
deviceVars == <<devices, sheet, stems, moved, synced>>
debounceVars == <<timers, promises, runs, calls, invoked>>
mergeIO == <<sheetData, localCards, merged, mergedUseSheet, remerged, phase>>
pushVars == <<stored, payload, decoded, code, recoded>>
pullVars == <<endpoint, response, pulled>>
migrateVars == <<cardStore, previous, updatedCounts>>
raceVars == <<idb, syncRun, edited>>
laterVars == <<migrateVars, raceVars>>
pureVars == <<pushVars, pullVars, laterVars>>
mergeVars == <<mergeIO, deviceVars, debounceVars, pureVars>>
vars == <<sysVars, mergeVars>>

(***************************************************************************)
(* MergeSpec: the merge functions over bounded inputs                      *)
(***************************************************************************)
Row(cardId, cardName, assignment, trimmed, lastUpdated) ==
  [cardId |-> cardId, cardName |-> cardName, assignment |-> assignment,
   trimmed |-> trimmed, lastUpdated |-> lastUpdated]

CardData(cardName, id, assignment, notes, trimmed, lastUpdated) ==
  [cardName |-> cardName, id |-> id, assignment |-> assignment,
   notes |-> notes, trimmed |-> trimmed, lastUpdated |-> lastUpdated]

\* remote rows: "Dishes" in every shape, "Laundry" in one
MergeRows ==
  {Row(i, "Dishes", a, a - 1, t) : i \in {"", "x1"}, a \in {1, 2}, t \in 1..MaxTime}
  \cup {Row("x2", "Laundry", 3, 0, t) : t \in 1..MaxTime}

RECURSIVE SeqsUpTo(_, _)
SeqsUpTo(S, n) ==
  IF n = 0 THEN {<<>>}
  ELSE LET shorter == SeqsUpTo(S, n - 1)
       IN shorter \cup {Append(q, x) : q \in {r \in shorter : Len(r) = n - 1}, x \in S}

\* local cards as getAllCards returns them: one per name, in key order
MergeLocalDishes ==
  {CardData("Dishes", i, s[1], s[2], s[3], t) :
     i \in {Undefined, "L1"},
     s \in {<<"player1", "ok", FALSE>>, <<"unassigned", "", TRUE>>},
     t \in {NoTime} \cup 1..MaxTime}
MergeLocalLaundry == {CardData("Laundry", "L2", "shared", "wash", FALSE, 1)}
MergeLocals ==
  {d \o l : d \in {<<>>} \cup {<<c>> : c \in MergeLocalDishes},
            l \in {<<>>} \cup {<<c>> : c \in MergeLocalLaundry}}

ApplyMerge ==
  /\ phase = "input"
  /\ merged' = mergeCardData(sheetData, localCards)
  /\ mergedUseSheet' = mergeCardDataWithPreference(sheetData, localCards, "use-sheet")
  /\ phase' = "merged"
  /\ UNCHANGED <<sheetData, localCards, remerged, sysVars, deviceVars, debounceVars,
                 pureVars>>

\* the same remote snapshot merged against the previous merge result
ReMerge ==
  /\ phase = "merged"
  /\ remerged' = mergeCardData(sheetData, merged)
  /\ phase' = "remerged"
  /\ UNCHANGED <<sheetData, localCards, merged, mergedUseSheet, sysVars, deviceVars,
                 debounceVars, pureVars>>

(***************************************************************************)
(* Spec: the sync orchestration                                            *)
(***************************************************************************)
\* most sync / autoSync / preview operations suspended at the same time
MaxTasks == 2
\* last tick of the wall clock
MaxClock == 2

Null == "null"

\* card names of definitions.json, in IndexedDB key order
CardOrder == <<"Dishes", "MINIMUM STANDARD OF CARE">>
CardNames == {CardOrder[i] : i \in 1..Len(CardOrder)}
\* endpoint urls the user may save
Urls == {"u1"}

\* what the endpoint may answer to a pull at time t
SheetTables(t) ==
  {<<>>,
   <<Row("x1", "Dishes", 2, 1, t)>>}

NoTask == [kind |-> "none", pc |-> "idle", strategy |-> "none",
           merged |-> <<>>, idx |-> 0, clean |-> TRUE]
NewTask(kind, pc, strategy) ==
  [kind |-> kind, pc |-> pc, strategy |-> strategy,
   merged |-> <<>>, idx |-> 0, clean |-> TRUE]

\* history of the last step: the operation, the kind and strategy of the task
\* that took it, the step of sync() it belongs to, whether the task was the only
\* writer since its merge, and whether the session was in its first-sync state
\* when the step was taken
NoEvent == [op |-> "none", kind |-> "none", strategy |-> "none", step |-> "idle",
            clean |-> TRUE, gate |-> FALSE]

\* ---------------------------------------------------------------- db.ts
createDefaultCardData(cardName) ==
  CardData(cardName, Undefined, "unassigned", "", FALSE, NoTime)

getOrCreateCardData(d, cardName) ==
  IF d[cardName] = NoCard THEN createDefaultCardData(cardName) ELSE d[cardName]

getAllCards(d) ==
  SelectSeq([i \in 1..Len(CardOrder) |-> d[CardOrder[i]]], LAMBDA c : c # NoCard)

\* a save that does not copy the trimmed flag of its argument
saveCardData_DropsTrimmed(d, cardName, patch, t) ==
  LET existingData == getOrCreateCardData(d, cardName)
      a == IF "assignment" \in DOMAIN patch THEN patch.assignment
           ELSE existingData.assignment
      n == IF "notes" \in DOMAIN patch THEN patch.notes ELSE existingData.notes
  IN [d EXCEPT ![cardName] =
        [existingData EXCEPT !.assignment = a, !.notes = n, !.lastUpdated = t]]

\* a save that also copies the id of its argument
saveCardData_StoresId(d, cardName, patch, t) ==
  LET existingData == getOrCreateCardData(d, cardName)
      i == IF "id" \in DOMAIN patch /\ patch.id # Undefined THEN patch.id
           ELSE existingData.id
      a == IF "assignment" \in DOMAIN patch THEN patch.assignment
           ELSE existingData.assignment
      n == IF "notes" \in DOMAIN patch THEN patch.notes ELSE existingData.notes
      r == IF "trimmed" \in DOMAIN patch THEN patch.trimmed ELSE existingData.trimmed
  IN [d EXCEPT ![cardName] =
        [existingData EXCEPT !.id = i, !.assignment = a, !.notes = n, !.trimmed = r,
                             !.lastUpdated = t]]

\* patch holds the fields of the Partial<CardData> argument that are defined;
\* an id in the patch is not copied
saveCardData(d, cardName, patch, t) ==
  LET existingData == getOrCreateCardData(d, cardName)
      a == IF "assignment" \in DOMAIN patch THEN patch.assignment
           ELSE existingData.assignment
      n == IF "notes" \in DOMAIN patch THEN patch.notes ELSE existingData.notes
      r == IF "trimmed" \in DOMAIN patch THEN patch.trimmed ELSE existingData.trimmed
  IN [d EXCEPT ![cardName] =
        [existingData EXCEPT !.assignment = a, !.notes = n, !.trimmed = r,
                             !.lastUpdated = t]]

saveCardAssignment(d, cardName, assignment, t) ==
  [d EXCEPT ![cardName] =
     [getOrCreateCardData(d, cardName) EXCEPT !.assignment = assignment,
                                              !.lastUpdated = t]]

saveCardNotes(d, cardName, notes, t) ==
  [d EXCEPT ![cardName] =
     [getOrCreateCardData(d, cardName) EXCEPT !.notes = NotesOrEmpty(notes),
                                              !.lastUpdated = t]]

saveCardTrimmed(d, cardName, trimmed, t) ==
  [d EXCEPT ![cardName] =
     [getOrCreateCardData(d, cardName) EXCEPT !.trimmed = trimmed,
                                              !.lastUpdated = t]]

\* !card.id
IdMissing(c) == c = NoCard \/ c.id \in {Undefined, ""}

\* generateCardId(): some fresh uuid; saveCardData does not store it
generateCardId == "uuid"

\* a load that keeps only the cards that should have an id
loadAllCardData_DropsInformational(d, t) ==
  [n \in CardNames |->
     IF ~shouldCardHaveId(n) THEN NoCard
     ELSE IF IdMissing(d[n]) THEN saveCardData(d, n, [id |-> generateCardId], t)[n]
     ELSE d[n]]

\* utils/data.ts loadAllCardData: every definition that should have an id and
\* has none in IndexedDB is saved with a new id
loadAllCardData(d, t) ==
  [n \in CardNames |->
     IF shouldCardHaveId(n) /\ IdMissing(d[n])
     THEN saveCardData(d, n, [id |-> generateCardId], t)[n]
     ELSE d[n]]

\* utils/migrateUuids.ts
migrateCardsToIncludeUuids(d, t) ==
  [n \in CardNames |->
     IF d[n] # NoCard /\ shouldCardHaveId(n) /\ IdMissing(d[n])
     THEN saveCardData(d, n, [id |-> generateCardId], t)[n]
     ELSE d[n]]

\* a filter that sends every card that has an id
cardsToSync_AnyId(d) ==
  SelectSeq(getAllCards(d), LAMBDA c : ~IdMissing(c))

\* syncToSheet's filter: cards with an id that should have one
cardsToSync(d) ==
  SelectSeq(getAllCards(d), LAMBDA c : ~IdMissing(c) /\ shouldCardHaveId(c.cardName))

\* ------------------------------------------------------- useSyncStore.ts
canSync == googleSheetUrl # "" /\ ~isSyncing
isFirstSync == googleSheetUrl # "" /\ ~hasSyncedBefore

\* startSync() followed by setError(null)
startSync ==
  /\ isSyncing' = TRUE
  /\ error' = Null
  /\ UNCHANGED <<googleSheetUrl, hasSyncedBefore, lastSyncTime, localStorage>>

finishSync ==
  /\ isSyncing' = FALSE
  /\ lastSyncTime' = now
  /\ hasSyncedBefore' = TRUE
  /\ localStorage' = [localStorage EXCEPT !.hasSynced = TRUE, !.lastSyncTime = now]
  /\ UNCHANGED <<error, googleSheetUrl>>

\* a catch block that records the error but leaves the sync flag set
syncCatch_KeepsSyncing(errorMessage) ==
  /\ error' = errorMessage
  /\ UNCHANGED <<isSyncing, googleSheetUrl, hasSyncedBefore, lastSyncTime, localStorage>>

\* the catch block of sync() and of autoSync()
syncCatch(errorMessage) ==
  /\ error' = errorMessage
  /\ isSyncing' = FALSE
  /\ UNCHANGED <<googleSheetUrl, hasSyncedBefore, lastSyncTime, localStorage>>

\* a clearGoogleSheetUrl that leaves the time of the last sync
clearGoogleSheetUrl_KeepsLastSync ==
  /\ googleSheetUrl' = ""
  /\ hasSyncedBefore' = FALSE
  /\ localStorage' = [localStorage EXCEPT !.url = "", !.hasSynced = FALSE]
  /\ UNCHANGED <<isSyncing, error, lastSyncTime>>

clearGoogleSheetUrl ==
  /\ googleSheetUrl' = ""
  /\ hasSyncedBefore' = FALSE
  /\ lastSyncTime' = NoTime
  /\ localStorage' = [url |-> "", hasSynced |-> FALSE, lastSyncTime |-> NoTime]
  /\ UNCHANGED <<isSyncing, error>>

\* a setGoogleSheetUrl that keeps the flag of the previous endpoint
setGoogleSheetUrl_KeepsFlag(url) ==
  /\ googleSheetUrl' = url
  /\ localStorage' = [localStorage EXCEPT !.url = url]
  /\ UNCHANGED <<isSyncing, error, lastSyncTime, hasSyncedBefore>>

\* url is trimmed and not empty
setGoogleSheetUrl(url) ==
  /\ googleSheetUrl' = url
  /\ hasSyncedBefore' = IF googleSheetUrl # url THEN FALSE ELSE hasSyncedBefore
  /\ localStorage' =
       [localStorage EXCEPT !.url = url,
                            !.hasSynced = IF googleSheetUrl # url THEN FALSE ELSE @]
  /\ UNCHANGED <<isSyncing, error, lastSyncTime>>

storeVars == <<isSyncing, error, googleSheetUrl, hasSyncedBefore, lastSyncTime,
               localStorage>>

\* ------------------------------------------------- suspended operations
Event(op, task, step) ==
  [op |-> op, kind |-> task.kind, strategy |-> task.strategy, step |-> step,
   clean |-> task.clean, gate |-> isFirstSync]

Running == BagToSet(tasks)
InFlight == {r \in Running : r.kind \in {"sync", "auto"}}
SlotFree == BagCardinality(tasks) < MaxTasks

Suspend(b, r) == b (+) SetToBag({r})
Resume(b, r) == b (-) SetToBag({r})

RECURSIVE Copies(_, _)
Copies(b, S) ==
  IF S = {} THEN 0
  ELSE LET r == CHOOSE r \in S : TRUE IN b[r] + Copies(b, S \ {r})

\* another writer changed a card: the syncs that hold a merge result are no
\* longer the only source of the values stored for its names
\* (the merge result is not read again once the save loop has ended)
Mark(r) ==
  IF r.kind = "sync" /\ r.pc = "persist" THEN [r EXCEPT !.clean = FALSE]
  ELSE IF r.kind = "sync" /\ r.pc # "pull"
       THEN [r EXCEPT !.clean = FALSE, !.merged = <<>>]
  ELSE r
Touched(b) ==
  [x \in {Mark(r) : r \in DOMAIN b} |-> Copies(b, {r \in DOMAIN b : Mark(r) = x})]

ErrorAt(pc) ==
  CASE pc = "pull" -> "Failed to sync from sheet"
    [] pc = "post" -> "Failed to sync to sheet"
    [] OTHER -> "IndexedDB error"

\* --------------------------------------------------------------- App.vue
EditAssignments == {"player1"}
EditNotes == {""}
EditTrimmed == {TRUE}

\* the tail of the three edit handlers: autoSync() = debouncedAutoSync()
\* re-arms the timer when an endpoint is configured and no sync is running
TriggerAutoSync ==
  debounceTimeout' = IF googleSheetUrl # "" /\ ~isSyncing THEN TRUE ELSE debounceTimeout

AfterEdit ==
  /\ TriggerAutoSync
  /\ tasks' = Touched(tasks)
  /\ ev' = NoEvent
  /\ UNCHANGED <<storeVars, now, showMergeStrategyDialog, mergeVars>>

handleAssignmentChange(cardName, assignment) ==
  /\ cardName \notin INFORMATIONAL_CARDS
  /\ db' = saveCardAssignment(db, cardName, assignment, now)
  /\ AfterEdit

handleNotesChange(cardName, notes) ==
  /\ cardName \notin INFORMATIONAL_CARDS
  /\ db' = saveCardNotes(db, cardName, notes, now)
  /\ AfterEdit

handleTrimChange(cardName, trimmed) ==
  /\ cardName \notin INFORMATIONAL_CARDS
  /\ db' = saveCardTrimmed(db, cardName, trimmed, now)
  /\ AfterEdit

\* Settings.vue handleSave (url already validated by new URL) and handleClear
handleSave(url) ==
  /\ setGoogleSheetUrl(url)
  /\ ev' = NoEvent
  /\ UNCHANGED <<db, now, tasks, debounceTimeout, showMergeStrategyDialog, mergeVars>>

handleClear ==
  /\ googleSheetUrl # ""
  /\ clearGoogleSheetUrl
  /\ ev' = NoEvent
  /\ UNCHANGED <<db, now, tasks, debounceTimeout, showMergeStrategyDialog, mergeVars>>

\* sync(strategy) up to its first await: the fetch of syncFromSheet, which
\* throws at once when no url is configured
BeginSync(strategy) ==
  IF googleSheetUrl = ""
  THEN /\ syncCatch("Google Sheet URL not configured")
       /\ ev' = Event("reject", NewTask("sync", "start", strategy), "pull")
       /\ UNCHANGED tasks
  ELSE /\ startSync
       /\ tasks' = Suspend(tasks, NewTask("sync", "pull", strategy))
       /\ ev' = NoEvent

\* the preview pull of the first-connection handshake
BeginPreview ==
  /\ tasks' = Suspend(tasks, NewTask("preview", "pull", "none"))
  /\ ev' = NoEvent

\* "Sync Now" of Settings.vue is rendered only while canSync
handleManualSync ==
  /\ canSync
  /\ SlotFree
  /\ IF isFirstSync
     THEN BeginPreview /\ UNCHANGED storeVars
     ELSE BeginSync("none")
  /\ UNCHANGED <<db, now, debounceTimeout, showMergeStrategyDialog, mergeVars>>

handleSyncClick ==
  /\ googleSheetUrl # ""
  /\ ~isSyncing
  /\ SlotFree
  /\ BeginSync("none")
  /\ UNCHANGED <<db, now, debounceTimeout, showMergeStrategyDialog, mergeVars>>

handleMergeStrategyConfirm(strategy) ==
  /\ showMergeStrategyDialog
  /\ SlotFree
  /\ showMergeStrategyDialog' = FALSE
  /\ BeginSync(strategy)
  /\ UNCHANGED <<db, now, debounceTimeout, mergeVars>>

\* a cancel that closes the dialog and keeps the endpoint
handleMergeStrategyCancel_KeepsUrl ==
  /\ showMergeStrategyDialog
  /\ showMergeStrategyDialog' = FALSE
  /\ ev' = [NoEvent EXCEPT !.op = "cancel"]
  /\ UNCHANGED <<storeVars, db, now, tasks, debounceTimeout, mergeVars>>

handleMergeStrategyCancel ==
  /\ showMergeStrategyDialog
  /\ showMergeStrategyDialog' = FALSE
  /\ clearGoogleSheetUrl
  /\ ev' = [NoEvent EXCEPT !.op = "cancel"]
  /\ UNCHANGED <<db, now, tasks, debounceTimeout, mergeVars>>

\* the page is (re)loaded: the store is rebuilt from localStorage, every
\* suspended operation and timer is gone, onMounted runs up to its first fetch
onMounted ==
  /\ isSyncing' = FALSE
  /\ error' = Null
  /\ googleSheetUrl' = localStorage.url
  /\ hasSyncedBefore' = localStorage.hasSynced
  /\ lastSyncTime' = localStorage.lastSyncTime
  /\ db' = migrateCardsToIncludeUuids(loadAllCardData(db, now), now)
  /\ debounceTimeout' = FALSE
  /\ showMergeStrategyDialog' = FALSE
  /\ tasks' = IF localStorage.url # "" /\ ~localStorage.hasSynced
              THEN SetToBag({NewTask("preview", "pull", "none")})
              ELSE EmptyBag
  /\ ev' = NoEvent
  /\ UNCHANGED <<localStorage, now, mergeVars>>

\* ------------------------------------------- useGoogleSheetsSync.ts steps
\* the timer of debouncedAutoSync fires: autoSync() up to the await inside
\* syncToSheet
debounceFires ==
  /\ debounceTimeout
  /\ debounceTimeout' = FALSE
  /\ IF googleSheetUrl = "" \/ isSyncing
     THEN /\ ev' = NoEvent
          /\ UNCHANGED <<storeVars, tasks>>
     ELSE /\ SlotFree
          /\ startSync
          /\ tasks' = Suspend(tasks, NewTask("auto", "push", "none"))
          /\ ev' = NoEvent
  /\ UNCHANGED <<db, now, showMergeStrategyDialog, mergeVars>>

\* what the save loop of sync() reads of a merged entity: the name and the
\* fields it hands to saveCardData
SaveArgs(cardData) ==
  [cardName |-> cardData.cardName, id |-> cardData.id,
   assignment |-> cardData.assignment, notes |-> cardData.notes,
   trimmed |-> cardData.trimmed]

\* syncFromSheet returns the rows; getAllCards; the merge
pullResponds(r, rows) ==
  /\ r \in Running
  /\ r.kind = "sync"
  /\ r.pc = "pull"
  /\ LET local == getAllCards(db)
         m == IF r.strategy # "none"
              THEN mergeCardDataWithPreference(rows, local, r.strategy)
              ELSE mergeCardData(rows, local)
     IN tasks' = Suspend(Resume(tasks, r),
                         [r EXCEPT !.pc = IF Len(m) = 0 THEN "reload" ELSE "persist",
                                   !.merged = [i \in 1..Len(m) |-> SaveArgs(m[i])],
                                   !.idx = 1])
  /\ ev' = NoEvent
  /\ UNCHANGED <<storeVars, db, now, debounceTimeout, showMergeStrategyDialog, mergeVars>>

\* one iteration of the save loop of sync()
persistStep(r) ==
  /\ r \in Running
  /\ r.pc = "persist"
  /\ LET cardData == r.merged[r.idx]
     IN db' = saveCardData(db, cardData.cardName,
                           [id |-> cardData.id, assignment |-> cardData.assignment,
                            notes |-> cardData.notes, trimmed |-> cardData.trimmed],
                           now)
  /\ tasks' = Suspend(Touched(Resume(tasks, r)),
                      IF r.idx = Len(r.merged)
                      THEN [r EXCEPT !.idx = 0, !.pc = "reload",
                                     !.merged = IF r.clean THEN @ ELSE <<>>]
                      ELSE [r EXCEPT !.idx = @ + 1])
  /\ ev' = Event("persist", r, "persist")
  /\ UNCHANGED <<storeVars, now, debounceTimeout, showMergeStrategyDialog, mergeVars>>

\* loadCards() and setCards(), then syncToSheet up to its await; syncToSheet
\* throws at once when the url was cleared meanwhile
reloadStep(r) ==
  /\ r \in Running
  /\ r.pc = "reload"
  /\ db' = loadAllCardData(db, now)
  /\ IF googleSheetUrl = ""
     THEN /\ syncCatch("Google Sheet URL not configured")
          /\ tasks' = Resume(tasks, r)
          /\ ev' = Event("reject", r, "push")
     ELSE /\ tasks' = Suspend(Resume(tasks, r), [r EXCEPT !.pc = "push"])
          /\ ev' = NoEvent
          /\ UNCHANGED storeVars
  /\ UNCHANGED <<now, debounceTimeout, showMergeStrategyDialog, mergeVars>>

\* a syncToSheet that reloads the cards before it returns
syncToSheetStep_Reloads(r) ==
  /\ r \in InFlight
  /\ r.pc \in {"push", "post"}
  /\ finishSync
  /\ db' = loadAllCardData(db, now)
  /\ tasks' = Resume(tasks, r)
  /\ ev' = Event("finish", r, "push")
  /\ UNCHANGED <<now, debounceTimeout, showMergeStrategyDialog, mergeVars>>

\* syncToSheet after getAllCards: nothing to send returns at once, otherwise
\* the rows are posted; a returned syncToSheet is followed by finishSync()
syncToSheetStep(r) ==
  /\ r \in InFlight
  /\ r.pc \in {"push", "post"}
  /\ IF r.pc = "push" /\ Len(cardsToSync(db)) # 0
     THEN /\ tasks' = Suspend(Resume(tasks, r), [r EXCEPT !.pc = "post"])
          /\ ev' = Event("post", r, "push")
          /\ UNCHANGED storeVars
     ELSE /\ finishSync
          /\ tasks' = Resume(tasks, r)
          /\ ev' = Event("finish", r, "push")
  /\ UNCHANGED <<db, now, debounceTimeout, showMergeStrategyDialog, mergeVars>>

\* the awaited fetch or IndexedDB request of a sync or autoSync rejects, or
\* the response is refused (status, HTML, JSON, not an array)
awaitRejects(r) ==
  /\ r \in InFlight
  /\ syncCatch(ErrorAt(r.pc))
  /\ tasks' = Resume(tasks, r)
  /\ ev' = Event("reject", r, IF r.pc \in {"push", "post"} THEN "push"
                              ELSE IF r.pc = "pull" THEN "pull" ELSE "persist")
  /\ UNCHANGED <<db, now, debounceTimeout, showMergeStrategyDialog, mergeVars>>

\* the preview pull ends: the dialog is shown, or a toast reports the failure
previewResponds(r, ok) ==
  /\ r \in Running
  /\ r.kind = "preview"
  /\ showMergeStrategyDialog' = (ok \/ showMergeStrategyDialog)
  /\ tasks' = Resume(tasks, r)
  /\ ev' = Event("previewed", r, "pull")
  /\ UNCHANGED <<storeVars, db, now, debounceTimeout, mergeVars>>

tick ==
  /\ now < MaxClock
  /\ now' = now + 1
  /\ ev' = NoEvent
  /\ UNCHANGED <<storeVars, db, tasks, debounceTimeout, showMergeStrategyDialog,
                 mergeVars>>

(***************************************************************************)
(* DeviceSpec: two clients syncing against one spreadsheet                 *)
(***************************************************************************)
Clients == {"A", "B"}

\* a row of the spreadsheet: the five cells (an empty lastUpdated cell is
\* NoTime) and, as history, the time of the user edit its values stem from
\* (0: before the clients started)
Cells(cardId, cardName, assignment, trimmed, lastUpdated, editedAt) ==
  [cardId |-> cardId, cardName |-> cardName, assignment |-> assignment,
   trimmed |-> trimmed, lastUpdated |-> lastUpdated, editedAt |-> editedAt]

\* the spreadsheet when the clients start: empty, or one row typed in or
\* written earlier, with or without a lastUpdated cell, for a card that syncs
\* or named like an informational card
InitialSheets ==
  {<<>>,
   <<Cells("x1", "Dishes", 2, 1, NoTime, 0)>>,
   <<Cells("x1", "Dishes", 2, 1, 0, 0)>>,
   <<Cells("m1", "MINIMUM STANDARD OF CARE", 1, 0, 0, 0)>>}

\* the cards of a file handed to the import: an informational card that
\* carries an id
ImportFiles ==
  {<<CardData("MINIMUM STANDARD OF CARE", "m9", "player2", "", FALSE, 1)>>}

\* Apps Script doGet at time t: a row without lastUpdated is given the
\* current time
doGet(cells, t) ==
  [i \in 1..Len(cells) |->
     Row(cells[i].cardId, cells[i].cardName, cells[i].assignment, cells[i].trimmed,
         IF cells[i].lastUpdated = NoTime THEN t ELSE cells[i].lastUpdated)]

\* Apps Script doPost, action "update": rows found by cardId among the first
\* n rows (those present before the request) are replaced, the others appended
RECURSIVE doPost(_, _, _)
doPost(cells, n, data) ==
  IF data = <<>> THEN cells
  ELSE LET item == Head(data)
           found == {i \in 1..n : cells[i].cardId # "" /\ cells[i].cardId = item.cardId}
           rowNum == CHOOSE i \in found : \A k \in found : k <= i
       IN doPost(IF found # {} THEN [cells EXCEPT ![rowNum] = item]
                 ELSE Append(cells, item),
                 n, Tail(data))

\* the rows syncToSheet sends for the cards of d at time t
SheetPayload(d, origin, t) ==
  LET cards == cardsToSync(d)
  IN [i \in 1..Len(cards) |->
        Cells(cards[i].id, cards[i].cardName,
              assignmentToInteger(cards[i].assignment),
              IF cards[i].trimmed THEN 1 ELSE 0,
              IF cards[i].lastUpdated = NoTime THEN t ELSE cards[i].lastUpdated,
              origin[cards[i].cardName])]

\* the save loop of sync()
RECURSIVE SaveAll(_, _, _)
SaveAll(d, mergedCards, t) ==
  IF mergedCards = <<>> THEN d
  ELSE LET cardData == Head(mergedCards)
       IN SaveAll(saveCardData(d, cardData.cardName,
                               [id |-> cardData.id, assignment |-> cardData.assignment,
                                notes |-> cardData.notes, trimmed |-> cardData.trimmed],
                               t),
                  Tail(mergedCards), t)

\* the sheet row of that name took the place of the local card in the merge
SheetWon(rows, local, cardName, strategy) ==
  /\ HasName(rows, cardName)
  /\ \/ strategy = "use-sheet"
     \/ MapGet(local, cardName) = NoCard
     \/ SheetTime(MapGet(rows, cardName)) > LocalTime(MapGet(local, cardName))

\* the save loop of the import
RECURSIVE ImportAll(_, _, _)
ImportAll(d, cards, t) ==
  IF cards = <<>> THEN d
  ELSE ImportAll(saveCardData(d, Head(cards).cardName, Head(cards), t), Tail(cards), t)

DeviceEdited(c, d) ==
  /\ devices' = [devices EXCEPT ![c] = d]
  /\ stems' = [stems EXCEPT ![c]["Dishes"] = now]
  /\ moved' = [op |-> "edit", client |-> "any"]
  /\ UNCHANGED <<sheet, synced, sysVars, mergeIO, debounceVars, pureVars>>

\* the user of client c assigns the card, or trims it
deviceAssignment(c, assignment) ==
  DeviceEdited(c, saveCardAssignment(devices[c], "Dishes", assignment, now))

deviceTrim(c, trimmed) ==
  DeviceEdited(c, saveCardTrimmed(devices[c], "Dishes", trimmed, now))

\* client c is started: loadAllCardData and the id migration
deviceLoad(c) ==
  /\ devices' = [devices EXCEPT ![c] =
                   migrateCardsToIncludeUuids(loadAllCardData(devices[c], now), now)]
  /\ moved' = [op |-> "load", client |-> "any"]
  /\ UNCHANGED <<sheet, stems, synced, sysVars, mergeIO, debounceVars, pureVars>>

\* the import of client c: clearAllCards, then every card of the file is saved
deviceImport(c, cards) ==
  /\ devices' = [devices EXCEPT ![c] =
                   ImportAll([n \in CardNames |-> NoCard], cards, now)]
  /\ stems' = [stems EXCEPT ![c] =
                 [n \in CardNames |->
                    IF \E i \in 1..Len(cards) : cards[i].cardName = n THEN now ELSE 0]]
  /\ moved' = [op |-> "import", client |-> "any"]
  /\ UNCHANGED <<sheet, synced, sysVars, mergeIO, debounceVars, pureVars>>

\* a whole sync() of client c without a strategy (newer wins) or with the
\* strategy chosen in the dialog: pull, merge, save loop, reload, push
deviceSync(c, strategy) ==
  LET rows == doGet(sheet, now)
      local == getAllCards(devices[c])
      mergedCards == IF strategy # "none"
                     THEN mergeCardDataWithPreference(rows, local, strategy)
                     ELSE mergeCardData(rows, local)
      reloaded == loadAllCardData(SaveAll(devices[c], mergedCards, now), now)
      origin == [n \in CardNames |->
                   IF SheetWon(rows, local, n, strategy)
                   THEN MapGet(sheet, n).editedAt ELSE stems[c][n]]
      data == SheetPayload(reloaded, origin, now)
  IN /\ devices' = [devices EXCEPT ![c] = reloaded]
     /\ stems' = [stems EXCEPT ![c] = origin]
     /\ sheet' = IF Len(data) = 0 THEN sheet ELSE doPost(sheet, Len(sheet), data)
     /\ moved' = [op |-> "sync", client |-> c, strategy |-> strategy, data |-> data]
     /\ synced' = synced \cup {c}
     /\ UNCHANGED <<sysVars, mergeIO, debounceVars, pureVars>>

\* a sync() of client c that fails at its push, after the save loop and the
\* reload
deviceSyncFails(c, strategy) ==
  LET rows == doGet(sheet, now)
      local == getAllCards(devices[c])
      mergedCards == IF strategy # "none"
                     THEN mergeCardDataWithPreference(rows, local, strategy)
                     ELSE mergeCardData(rows, local)
      reloaded == loadAllCardData(SaveAll(devices[c], mergedCards, now), now)
      origin == [n \in CardNames |->
                   IF SheetWon(rows, local, n, strategy)
                   THEN MapGet(sheet, n).editedAt ELSE stems[c][n]]
  IN /\ devices' = [devices EXCEPT ![c] = reloaded]
     /\ stems' = [stems EXCEPT ![c] = origin]
     /\ moved' = [op |-> "failed", client |-> c]
     /\ UNCHANGED <<sheet, synced, sysVars, mergeIO, debounceVars, pureVars>>

\* an autoSync() of client c: syncToSheet alone
deviceAutoSync(c) ==
  LET data == SheetPayload(devices[c], stems[c], now)
  IN /\ sheet' = IF Len(data) = 0 THEN sheet ELSE doPost(sheet, Len(sheet), data)
     /\ moved' = [op |-> "auto", client |-> "any"]
     /\ UNCHANGED <<devices, stems, synced, sysVars, mergeIO, debounceVars, pureVars>>

deviceTick ==
  /\ now < MaxClock
  /\ now' = now + 1
  /\ moved' = [op |-> "tick", client |-> "none"]
  /\ UNCHANGED <<isSyncing, error, googleSheetUrl, hasSyncedBefore, lastSyncTime,
                 localStorage, db, tasks, debounceTimeout, showMergeStrategyDialog,
                 ev, devices, sheet, stems, synced, mergeIO, debounceVars, pureVars>>

(***************************************************************************)
(* DebounceSpec: debouncedAutoSync, its timer and its promises             *)
(***************************************************************************)
MaxCalls == 3
MaxTicks == 6
\* the delay of the setTimeout, in milliseconds
DebounceDelay == 2000

\* clearTimeout that forgets to cancel
clearTimeout_Keeps(pending, id) == pending

\* clearTimeout: the timer of that id will not run
clearTimeout(pending, id) == {t \in pending : t.id # id}

\* a timer that is due runs before anything else happens at that instant
TimerDue == \E t \in timers : t.due <= now

\* a call of debouncedAutoSync: the pending timer is cleared, a new promise is
\* returned whose executor sets the new timer. debounceTimeout, when set,
\* holds the timer of the latest call, whose id is the number of that call
debouncedAutoSync ==
  LET id == Len(calls) + 1
  IN /\ Len(calls) < MaxCalls
     /\ ~TimerDue
     /\ timers' = (IF debounceTimeout THEN clearTimeout(timers, Len(calls)) ELSE timers)
                     \cup {[id |-> id, due |-> now + DebounceDelay]}
     /\ debounceTimeout' = TRUE
     /\ promises' = Append(promises, "pending")
     /\ calls' = Append(calls, now)
     /\ UNCHANGED <<storeVars, db, now, tasks, showMergeStrategyDialog, ev, runs,
                    invoked, mergeIO, deviceVars, pureVars>>

\* an autoSync guard that only looks at the endpoint
autoSyncSkips_UrlOnly == googleSheetUrl = ""

\* the guard of autoSync: no endpoint, or a sync in progress
autoSyncSkips == googleSheetUrl = "" \/ isSyncing

\* the timer callback: debounceTimeout = null, then autoSync(), which returns
\* at once without an endpoint or during a sync (the promise of this timer
\* resolves), and otherwise starts the sync and awaits syncToSheet
timerCallback(t) ==
  /\ t \in timers
  /\ t.due <= now
  /\ timers' = timers \ {t}
  /\ debounceTimeout' = FALSE
  /\ invoked' = Append(invoked, [at |-> now, after |-> Len(calls), id |-> t.id,
                                 skipped |-> autoSyncSkips])
  /\ IF autoSyncSkips
     THEN /\ promises' = [promises EXCEPT ![t.id] = "resolved"]
          /\ UNCHANGED <<storeVars, runs>>
     ELSE /\ startSync
          /\ runs' = runs \cup {t.id}
          /\ UNCHANGED promises
  /\ UNCHANGED <<db, now, tasks, showMergeStrategyDialog, ev, calls, mergeIO,
                 deviceVars, pureVars>>

\* syncToSheet of an autoSync ends: it returns (nothing to send, or the POST
\* was answered) and the promise resolves, or it throws and the promise is
\* rejected with that error
autoSyncEnds(id, ok) ==
  /\ id \in runs
  /\ runs' = runs \ {id}
  /\ IF ok
     THEN /\ finishSync
          /\ promises' = [promises EXCEPT ![id] = "resolved"]
     ELSE /\ syncCatch(ErrorAt("push"))
          /\ promises' = [promises EXCEPT ![id] = "rejected"]
  /\ UNCHANGED <<db, now, tasks, debounceTimeout, showMergeStrategyDialog, ev,
                 timers, calls, invoked, mergeIO, deviceVars, pureVars>>

\* half a debounce delay passes
debounceTick ==
  /\ now < MaxTicks * (DebounceDelay \div 2)
  /\ ~TimerDue
  /\ now' = now + DebounceDelay \div 2
  /\ UNCHANGED <<storeVars, db, tasks, debounceTimeout, showMergeStrategyDialog,
                 ev, mergeVars>>

(***************************************************************************)
(* StoreSpec: configuring the endpoint                                     *)
(***************************************************************************)
\* what can be typed into the url field or handed to the store: nothing,
\* blanks, an absolute url with and without blanks around it, another
\* absolute url, and a text that is no url
UrlInputs == {"", "  ", "u1", " u1 ", "u2", "my sheet"}

\* String.prototype.trim on these inputs
trim(str) ==
  IF str = "  " THEN "" ELSE IF str = " u1 " THEN "u1" ELSE str

\* new URL(url) does not throw
isValidUrl(url) == url \in {"u1", "u2"}

\* history of a step that sets the endpoint: the entry point, its argument and
\* whether it reported an error
Configured(op, input, failed) == [op |-> op, input |-> input, failed |-> failed]

StoreFrame ==
  UNCHANGED <<db, now, tasks, debounceTimeout, showMergeStrategyDialog, mergeVars>>

\* the store's setGoogleSheetUrl called with any string
storeSetGoogleSheetUrl(url) ==
  /\ IF trim(url) # "" THEN setGoogleSheetUrl(trim(url)) ELSE clearGoogleSheetUrl
  /\ ev' = Configured("setGoogleSheetUrl", url, FALSE)
  /\ StoreFrame

\* Save in the settings dialog; the button is disabled while the field is
\* blank or a sync is running
settingsSave(urlInput) ==
  /\ trim(urlInput) # ""
  /\ ~isSyncing
  /\ IF isValidUrl(trim(urlInput))
     THEN /\ setGoogleSheetUrl(trim(urlInput))
          /\ ev' = Configured("handleSave", urlInput, FALSE)
     ELSE /\ ev' = Configured("handleSave", urlInput, TRUE)
          /\ UNCHANGED storeVars
  /\ StoreFrame

settingsClear ==
  /\ clearGoogleSheetUrl
  /\ ev' = Configured("clearGoogleSheetUrl", "", FALSE)
  /\ StoreFrame

\* a sync starts, and ends well
storeStartSync ==
  /\ canSync
  /\ startSync
  /\ ev' = NoEvent
  /\ StoreFrame

storeFinishSync ==
  /\ isSyncing
  /\ finishSync
  /\ ev' = NoEvent
  /\ StoreFrame

(***************************************************************************)
(* PushSpec: the rows syncToSheet builds from the cards it reads           *)
(***************************************************************************)
MaxCode == 5

\* cards as getAllCards can hand them to syncToSheet: any assignment, with
\* and without an id, for a card that syncs and for an informational card
StoredCards(cardName) ==
  {NoCard} \cup
  {CardData(cardName, i, a, "note", r, t) :
     i \in {Undefined, "", "id-" \o cardName},
     a \in {"unassigned", "player1", "player2", "shared"},
     r \in BOOLEAN,
     t \in {NoTime, 1}}

\* numbers a cell of the assignment column may hold
CodeInputs == (0 - 1)..MaxCode

\* syncToSheet up to the POST
buildPayload ==
  /\ phase = "stored"
  /\ payload' = SheetPayload(stored, [n \in CardNames |-> 0], now)
  /\ phase' = "built"
  /\ UNCHANGED <<stored, decoded, code, recoded, sysVars, sheetData, localCards,
                 merged, mergedUseSheet, remerged, deviceVars, debounceVars,
                 pullVars, laterVars>>

\* the rows are read back as mergeCardData reads a row, and the code is
\* decoded and encoded again
decodePayload ==
  /\ phase = "built"
  /\ decoded' = [i \in 1..Len(payload) |-> integerToAssignment(payload[i].assignment)]
  /\ recoded' = assignmentToInteger(integerToAssignment(code))
  /\ phase' = "decoded"
  /\ UNCHANGED <<stored, payload, code, sysVars, sheetData, localCards, merged,
                 mergedUseSheet, remerged, deviceVars, debounceVars,
                 pullVars, laterVars>>

\* a sync that is running fails
storeSyncFails ==
  /\ isSyncing
  /\ syncCatch(ErrorAt("pull"))
  /\ ev' = NoEvent
  /\ StoreFrame

\* the application restarts: the store is built anew, its refs from their
\* initial values and from localStorage
storeRestart ==
  /\ isSyncing' = FALSE
  /\ error' = Null
  /\ googleSheetUrl' = localStorage.url
  /\ hasSyncedBefore' = localStorage.hasSynced
  /\ lastSyncTime' = localStorage.lastSyncTime
  /\ ev' = Configured("restart", "", FALSE)
  /\ UNCHANGED localStorage
  /\ StoreFrame

(***************************************************************************)
(* PullSpec: syncFromSheet and the answers of the endpoint                 *)
(***************************************************************************)
NoResponse == [network |-> FALSE, ok |-> FALSE, contentType |-> "", body |-> ""]
NotPulled == [result |-> "none", message |-> "", requested |-> FALSE]

\* response bodies: the JSON of an array of rows, the JSON of an object (the
\* script's error report), a page of HTML with and without blanks before it,
\* and text that is neither
Bodies == {"[rows]", "{error}", "<html>", "  <html>", "sorry"}

\* responseText.trim().startsWith("<")
StartsWithTag(body) == body \in {"<html>", "  <html>"}

\* JSON.parse(responseText): what it returns, or that it throws
JSONparse(body) ==
  CASE body = "[rows]" -> "array"
    [] body = "{error}" -> "object"
    [] OTHER -> "throws"

\* what the endpoint may answer: the fetch fails, or a response arrives with
\* a status, a content-type header (or none) and a body
Responses ==
  {NoResponse} \cup
  {[network |-> TRUE, ok |-> k, contentType |-> t, body |-> b] :
     k \in BOOLEAN, t \in {"", "application/json", "text/html; charset=utf-8"},
     b \in Bodies}

\* contentType.includes("text/html")
IncludesHtml(contentType) == contentType = "text/html; charset=utf-8"

Thrown(message, requested) ==
  [result |-> "error", message |-> message, requested |-> requested]

\* a syncFromSheet that only looks at the content-type for HTML
syncFromSheet_TrustsContentType(url, r) ==
  IF url = "" THEN Thrown("Google Sheet URL not configured", FALSE)
  ELSE IF ~r.network THEN Thrown("Failed to fetch", TRUE)
  ELSE IF ~r.ok THEN Thrown("Failed to sync from sheet", TRUE)
  ELSE IF IncludesHtml(r.contentType)
    THEN Thrown("Received HTML instead of JSON", TRUE)
  ELSE IF JSONparse(r.body) = "throws"
    THEN Thrown("Failed to parse response as JSON", TRUE)
  ELSE IF JSONparse(r.body) # "array"
    THEN Thrown("Invalid response from sheet: expected array", TRUE)
  ELSE [result |-> "rows", message |-> "", requested |-> TRUE]

\* syncFromSheet with the url of the store and the answer r of the endpoint
syncFromSheet(url, r) ==
  IF url = "" THEN Thrown("Google Sheet URL not configured", FALSE)
  ELSE IF ~r.network THEN Thrown("Failed to fetch", TRUE)
  ELSE IF ~r.ok THEN Thrown("Failed to sync from sheet", TRUE)
  ELSE IF IncludesHtml(r.contentType) \/ StartsWithTag(r.body)
    THEN Thrown("Received HTML instead of JSON", TRUE)
  ELSE IF JSONparse(r.body) = "throws"
    THEN Thrown("Failed to parse response as JSON", TRUE)
  ELSE IF JSONparse(r.body) # "array"
    THEN Thrown("Invalid response from sheet: expected array", TRUE)
  ELSE [result |-> "rows", message |-> "", requested |-> TRUE]

callSyncFromSheet ==
  /\ phase = "request"
  /\ pulled' = syncFromSheet(endpoint, response)
  /\ phase' = "pulled"
  /\ UNCHANGED <<endpoint, response, sysVars, sheetData, localCards, merged,
                 mergedUseSheet, remerged, deviceVars, debounceVars, pushVars,
                 laterVars>>

\* the caller has seen the outcome
pullSeen ==
  /\ phase = "pulled"
  /\ phase' = "seen"
  /\ UNCHANGED <<pullVars, sysVars, sheetData, localCards, merged,
                 mergedUseSheet, remerged, deviceVars, debounceVars, pushVars,
                 laterVars>>

(***************************************************************************)
(* MigrateSpec: the id migration of onMounted                              *)
(***************************************************************************)
\* most runs of the migration
MaxRuns == 2

\* a card as the edit handlers and saveCardData leave it in IndexedDB: no id
EditedCards(cardName) ==
  {NoCard} \cup
  {CardData(cardName, Undefined, a, x, r, 0) :
     a \in {"unassigned", "player1", "shared"},
     x \in {"", "note"},
     r \in BOOLEAN}

\* the cards the migration saves: stored, should have an id, have none
NeedsId(d) == {n \in CardNames : d[n] # NoCard /\ shouldCardHaveId(n) /\ IdMissing(d[n])}

\* the number migrateCardsToIncludeUuids returns
updatedCount(d) == Cardinality(NeedsId(d))

\* utils/migrateUuids.ts needsUuidMigration
needsUuidMigration(d) == NeedsId(d) # {}

\* onMounted: cardData.loadCards()
loadCards ==
  /\ phase = "mounting"
  /\ cardStore' = loadAllCardData(cardStore, now)
  /\ previous' = cardStore
  /\ phase' = "loaded"
  /\ UNCHANGED <<updatedCounts, sysVars, sheetData, localCards, merged,
                 mergedUseSheet, remerged, deviceVars, debounceVars, pushVars,
                 pullVars, raceVars>>

\* onMounted: migrateCardsToIncludeUuids(), and the same call once more
runMigration ==
  /\ phase = "loaded"
  /\ Len(updatedCounts) < MaxRuns
  /\ cardStore' = migrateCardsToIncludeUuids(cardStore, now)
  /\ previous' = cardStore
  /\ updatedCounts' = Append(updatedCounts, updatedCount(cardStore))
  /\ UNCHANGED <<phase, sysVars, sheetData, localCards, merged,
                 mergedUseSheet, remerged, deviceVars, debounceVars, pushVars,
                 pullVars, raceVars>>

(***************************************************************************)
(* EditRaceSpec: the steps of one sync() and the edits of the user         *)
(***************************************************************************)
\* the value the user gives a field of the card 'Dishes'
UserValue(f) ==
  CASE f = "assignment" -> "player1"
    [] f = "notes" -> "note"
    [] f = "trimmed" -> TRUE

\* sync() has read the local cards and has not yet saved its entity of the
\* card
HoldsUnsaved(cardName) ==
  /\ syncRun.pc = "persist"
  /\ \E i \in syncRun.idx..Len(syncRun.merged) : syncRun.merged[i].cardName = cardName

RaceFrame ==
  UNCHANGED <<phase, storeVars, db, tasks, debounceTimeout, showMergeStrategyDialog,
              ev, sheetData, localCards, merged, mergedUseSheet, remerged,
              deviceVars, debounceVars, pushVars, pullVars, migrateVars>>

\* handleAssignmentChange / handleNotesChange / handleTrimChange on 'Dishes'
userEdits(f) ==
  /\ idb' = CASE f = "assignment" -> saveCardAssignment(idb, "Dishes", UserValue(f), now)
              [] f = "notes" -> saveCardNotes(idb, "Dishes", UserValue(f), now)
              [] f = "trimmed" -> saveCardTrimmed(idb, "Dishes", UserValue(f), now)
  /\ edited' = IF HoldsUnsaved("Dishes") THEN [edited EXCEPT ![f] = UserValue(f)]
               ELSE edited
  /\ UNCHANGED <<syncRun, now>>
  /\ RaceFrame

\* sync(): syncFromSheet returns the rows, getAllCards, the merge
syncPulls(rows) ==
  /\ syncRun.pc = "pull"
  /\ LET local == getAllCards(idb)
         m == IF syncRun.strategy # "none"
              THEN mergeCardDataWithPreference(rows, local, syncRun.strategy)
              ELSE mergeCardData(rows, local)
     IN syncRun' = [syncRun EXCEPT !.pc = IF Len(m) = 0 THEN "reload" ELSE "persist",
                                   !.merged = m, !.idx = 1]
  /\ UNCHANGED <<idb, edited, now>>
  /\ RaceFrame

\* sync(): one iteration of the save loop
syncPersists ==
  /\ syncRun.pc = "persist"
  /\ LET cardData == syncRun.merged[syncRun.idx]
     IN idb' = saveCardData(idb, cardData.cardName,
                            [id |-> cardData.id, assignment |-> cardData.assignment,
                             notes |-> cardData.notes, trimmed |-> cardData.trimmed],
                            now)
  /\ syncRun' = IF syncRun.idx = Len(syncRun.merged)
                THEN [syncRun EXCEPT !.pc = "reload", !.merged = <<>>, !.idx = 0]
                ELSE [syncRun EXCEPT !.idx = @ + 1]
  /\ UNCHANGED <<edited, now>>
  /\ RaceFrame

\* sync(): loadCards(), after which only the push is left
syncReloads ==
  /\ syncRun.pc = "reload"
  /\ idb' = loadAllCardData(idb, now)
  /\ syncRun' = [syncRun EXCEPT !.pc = "push"]
  /\ UNCHANGED <<edited, now>>
  /\ RaceFrame

raceTick ==
  /\ now < MaxClock
  /\ now' = now + 1
  /\ UNCHANGED <<idb, syncRun, edited>>
  /\ RaceFrame

(***************************************************************************)
(* AutoPushSpec: one edit, the debounced autoSync and manual syncs         *)
(***************************************************************************)
\* handleAssignmentChange, once: the user assigns 'Dishes' to player1
userAssigns ==
  /\ phase = "unedited"
  /\ phase' = "edited"
  /\ db' = saveCardAssignment(db, "Dishes", "player1", now)
  /\ TriggerAutoSync
  /\ tasks' = Touched(tasks)
  /\ ev' = NoEvent
  /\ UNCHANGED <<storeVars, now, showMergeStrategyDialog, sheetData, localCards,
                 merged, mergedUseSheet, remerged, deviceVars, debounceVars,
                 pureVars>>

(***************************************************************************)
(* Specifications                                                          *)
(***************************************************************************)
\* a first start: empty localStorage, IndexedDB as the first load leaves it
SysInit ==
  /\ isSyncing = FALSE
  /\ error = Null
  /\ googleSheetUrl = ""
  /\ hasSyncedBefore = FALSE
  /\ lastSyncTime = NoTime
  /\ localStorage = [url |-> "", hasSynced |-> FALSE, lastSyncTime |-> NoTime]
  /\ now = 1
  /\ db = migrateCardsToIncludeUuids(
            loadAllCardData([n \in CardNames |-> NoCard], 1), 1)
  /\ tasks = EmptyBag
  /\ debounceTimeout = FALSE
  /\ showMergeStrategyDialog = FALSE
  /\ ev = NoEvent

NotRunning == [pc |-> "idle", strategy |-> "none", merged |-> <<>>, idx |-> 0]
EditFields == {"assignment", "notes", "trimmed"}

RaceIdle ==
  /\ idb = [n \in CardNames |-> NoCard]
  /\ syncRun = NotRunning
  /\ edited = [f \in EditFields |-> Null]

MigrateIdle ==
  /\ cardStore = [n \in CardNames |-> NoCard]
  /\ previous = [n \in CardNames |-> NoCard]
  /\ updatedCounts = <<>>

PullIdle ==
  /\ endpoint = ""
  /\ response = NoResponse
  /\ pulled = NotPulled

PushIdle ==
  /\ stored = [n \in CardNames |-> NoCard]
  /\ payload = <<>>
  /\ decoded = <<>>
  /\ code = 0
  /\ recoded = 0

DebounceIdle ==
  /\ timers = {}
  /\ promises = <<>>
  /\ runs = {}
  /\ calls = <<>>
  /\ invoked = <<>>

DeviceIdle ==
  /\ devices = [c \in Clients |-> [n \in CardNames |-> NoCard]]
  /\ sheet = <<>>
  /\ stems = [c \in Clients |-> [n \in CardNames |-> 0]]
  /\ moved = [op |-> "none", client |-> "none"]
  /\ synced = {}

MergeIdle ==
  /\ sheetData = <<>>
  /\ localCards = <<>>
  /\ merged = <<>>
  /\ mergedUseSheet = <<>>
  /\ remerged = <<>>

Init ==
  SysInit /\ MergeIdle /\ DeviceIdle /\ DebounceIdle /\ PushIdle /\ PullIdle
  /\ MigrateIdle
  /\ RaceIdle
  /\ phase = "off"

Next ==
  \/ \E n \in CardNames, a \in EditAssignments : handleAssignmentChange(n, a)
  \/ \E n \in CardNames, x \in EditNotes : handleNotesChange(n, x)
  \/ \E n \in CardNames, b \in EditTrimmed : handleTrimChange(n, b)
  \/ \E u \in Urls : handleSave(u)
  \/ handleClear
  \/ handleManualSync
  \/ handleSyncClick
  \/ \E s \in {"use-sheet", "newer-wins"} : handleMergeStrategyConfirm(s)
  \/ handleMergeStrategyCancel
  \/ onMounted
  \/ debounceFires
  \/ \E r \in Running : \E rows \in SheetTables(now) : pullResponds(r, rows)
  \/ \E r \in Running : persistStep(r)
  \/ \E r \in Running : reloadStep(r)
  \/ \E r \in Running : syncToSheetStep(r)
  \/ \E r \in Running : awaitRejects(r)
  \/ \E r \in Running, ok \in BOOLEAN : previewResponds(r, ok)
  \/ tick

Spec == Init /\ [][Next]_vars

MergeInit ==
  /\ SysInit
  /\ DeviceIdle
  /\ DebounceIdle
  /\ PushIdle
  /\ PullIdle
  /\ MigrateIdle
  /\ RaceIdle
  /\ sheetData \in SeqsUpTo(MergeRows, MaxRows)
  /\ localCards \in MergeLocals
  /\ merged = <<>>
  /\ mergedUseSheet = <<>>
  /\ remerged = <<>>
  /\ phase = "input"

MergeNext == ApplyMerge \/ ReMerge

MergeSpec == MergeInit /\ [][MergeNext]_vars

\* both clients have been started once; the sheet holds what it held before
DeviceInit ==
  /\ SysInit
  /\ MergeIdle
  /\ DebounceIdle
  /\ PushIdle
  /\ PullIdle
  /\ MigrateIdle
  /\ RaceIdle
  /\ phase = "devices"
  /\ devices = [c \in Clients |->
                  migrateCardsToIncludeUuids(
                    loadAllCardData([n \in CardNames |-> NoCard], 1), 1)]
  /\ sheet \in InitialSheets
  /\ stems = [c \in Clients |-> [n \in CardNames |-> 0]]
  /\ moved = [op |-> "none", client |-> "none"]
  /\ synced = {}

DeviceNext ==
  \/ \E c \in Clients : deviceAssignment(c, "player1")
  \/ \E c \in Clients : deviceTrim(c, TRUE)
  \/ \E c \in Clients : deviceLoad(c)
  \/ \E c \in Clients, cards \in ImportFiles : deviceImport(c, cards)
  \/ \E c \in Clients, strategy \in {"none", "use-sheet"} :
       deviceSync(c, strategy)
  \/ \E c \in Clients, strategy \in {"none", "use-sheet"} :
       deviceSyncFails(c, strategy)
  \/ \E c \in Clients : deviceAutoSync(c)
  \/ deviceTick

DeviceSpec == DeviceInit /\ [][DeviceNext]_vars

\* a session with or without an endpoint, before the first call
DebounceInit ==
  /\ isSyncing = FALSE
  /\ error = Null
  /\ googleSheetUrl \in {""} \cup Urls
  /\ hasSyncedBefore = FALSE
  /\ lastSyncTime = NoTime
  /\ localStorage = [url |-> googleSheetUrl, hasSynced |-> FALSE, lastSyncTime |-> NoTime]
  /\ now = 1
  /\ db = migrateCardsToIncludeUuids(
            loadAllCardData([n \in CardNames |-> NoCard], 1), 1)
  /\ tasks = EmptyBag
  /\ debounceTimeout = FALSE
  /\ showMergeStrategyDialog = FALSE
  /\ ev = NoEvent
  /\ MergeIdle
  /\ DeviceIdle
  /\ DebounceIdle
  /\ PushIdle
  /\ PullIdle
  /\ MigrateIdle
  /\ RaceIdle
  /\ phase = "debounce"

DebounceNext ==
  \/ debouncedAutoSync
  \/ \E t \in timers : timerCallback(t)
  \/ \E id \in runs, ok \in BOOLEAN : autoSyncEnds(id, ok)
  \/ debounceTick

DebounceSpec == DebounceInit /\ [][DebounceNext]_vars

PushInit ==
  /\ SysInit
  /\ MergeIdle
  /\ DeviceIdle
  /\ DebounceIdle
  /\ stored \in [CardNames -> UNION {StoredCards(n) : n \in CardNames}]
  /\ \A n \in CardNames : stored[n] \in StoredCards(n)
  /\ payload = <<>>
  /\ decoded = <<>>
  /\ code \in CodeInputs
  /\ recoded = 0
  /\ PullIdle
  /\ MigrateIdle
  /\ RaceIdle
  /\ phase = "stored"

PushNext == buildPayload \/ decodePayload

PushSpec == PushInit /\ [][PushNext]_vars

\* IndexedDB as the edits of an earlier session left it
MigrateInit ==
  /\ SysInit
  /\ MergeIdle
  /\ DeviceIdle
  /\ DebounceIdle
  /\ PushIdle
  /\ PullIdle
  /\ RaceIdle
  /\ cardStore \in [CardNames -> UNION {EditedCards(n) : n \in CardNames}]
  /\ \A n \in CardNames : cardStore[n] \in EditedCards(n)
  /\ previous = cardStore
  /\ updatedCounts = <<>>
  /\ phase = "mounting"

MigrateNext == loadCards \/ runMigration

MigrateSpec == MigrateInit /\ [][MigrateNext]_vars

\* the cards as a start of the app leaves them, and a sync() that has been
\* called without a strategy or with the strategy of the dialog
EditRaceInit ==
  /\ SysInit
  /\ MergeIdle
  /\ DeviceIdle
  /\ DebounceIdle
  /\ PushIdle
  /\ PullIdle
  /\ MigrateIdle
  /\ \E c \in EditedCards("Dishes") :
       idb = loadAllCardData([n \in CardNames |-> IF n = "Dishes" THEN c ELSE NoCard],
                             now)
  /\ syncRun \in {[NotRunning EXCEPT !.pc = "pull", !.strategy = s] :
                    s \in {"none", "use-sheet"}}
  /\ edited = [f \in EditFields |-> Null]
  /\ phase = "race"

EditRaceNext ==
  \/ \E f \in EditFields : userEdits(f)
  \/ \E rows \in SheetTables(now) : syncPulls(rows)
  \/ syncPersists
  \/ syncReloads
  \/ raceTick

EditRaceSpec == EditRaceInit /\ [][EditRaceNext]_vars

\* an endpoint is configured and has been synced before
AutoPushInit ==
  /\ isSyncing = FALSE
  /\ error = Null
  /\ googleSheetUrl = "u1"
  /\ hasSyncedBefore = TRUE
  /\ lastSyncTime = 0
  /\ localStorage = [url |-> "u1", hasSynced |-> TRUE, lastSyncTime |-> 0]
  /\ now = 1
  /\ db = migrateCardsToIncludeUuids(
            loadAllCardData([n \in CardNames |-> NoCard], 1), 1)
  /\ tasks = EmptyBag
  /\ debounceTimeout = FALSE
  /\ showMergeStrategyDialog = FALSE
  /\ ev = NoEvent
  /\ MergeIdle
  /\ DeviceIdle
  /\ DebounceIdle
  /\ PushIdle
  /\ PullIdle
  /\ MigrateIdle
  /\ RaceIdle
  /\ phase = "unedited"

\* the user edits once and may start syncs by hand; no request fails
AutoPushNext ==
  \/ userAssigns
  \/ handleManualSync
  \/ debounceFires
  \/ \E r \in Running : \E rows \in SheetTables(now) : pullResponds(r, rows)
  \/ \E r \in Running : persistStep(r)
  \/ \E r \in Running : reloadStep(r)
  \/ \E r \in Running : syncToSheetStep(r)
  \/ tick

\* a timer that is set fires, and an operation that awaits a request or
\* IndexedDB is resumed
AutoPushSpec ==
  /\ AutoPushInit
  /\ [][AutoPushNext]_vars
  /\ WF_vars(debounceFires)
  /\ WF_vars(\E r \in Running : \E rows \in SheetTables(now) : pullResponds(r, rows))
  /\ WF_vars(\E r \in Running : persistStep(r))
  /\ WF_vars(\E r \in Running : reloadStep(r))
  /\ WF_vars(\E r \in Running : syncToSheetStep(r))

PullInit ==
  /\ SysInit
  /\ MergeIdle
  /\ DeviceIdle
  /\ DebounceIdle
  /\ PushIdle
  /\ MigrateIdle
  /\ RaceIdle
  /\ endpoint \in {""} \cup Urls
  /\ response \in Responses
  /\ pulled = NotPulled
  /\ phase = "request"

PullNext == callSyncFromSheet \/ pullSeen

PullSpec == PullInit /\ [][PullNext]_vars

StoreInit ==
  /\ SysInit
  /\ MergeIdle
  /\ DeviceIdle
  /\ DebounceIdle
  /\ PushIdle
  /\ PullIdle
  /\ MigrateIdle
  /\ RaceIdle
  /\ phase = "store"

StoreNext ==
  \/ \E url \in UrlInputs : storeSetGoogleSheetUrl(url)
  \/ \E urlInput \in UrlInputs : settingsSave(urlInput)
  \/ settingsClear
  \/ storeStartSync
  \/ storeFinishSync
  \/ storeSyncFails
  \/ storeRestart
  \/ tick

StoreSpec == StoreInit /\ [][StoreNext]_vars

(***************************************************************************)
(* Properties of the merge functions (MergeSpec)                           *)
(***************************************************************************)
Names(cards) == {cards[i].cardName : i \in 1..Len(cards)}
Occurrences(cards, cardName) ==
  Cardinality({i \in 1..Len(cards) : cards[i].cardName = cardName})
Merged == phase \in {"merged", "remerged"}
\* an absent id and an empty id both mean "no id"
IdOf(id) == IF id = Undefined THEN "" ELSE id
\* row i of the sheet and local card j carry the same name
Matched(i, j) ==
  /\ i \in 1..Len(sheetData)
  /\ j \in 1..Len(localCards)
  /\ sheetData[i].cardName = localCards[j].cardName
SheetNewer(i, j) == sheetData[i].lastUpdated > LocalTime(localCards[j])

\* C6: every name of the sheet rows or of the local cards appears exactly
\* once in mergeCardData's output, and the output is at least as long as the
\* number of distinct names
C6_NameCoverage ==
  Merged =>
    /\ \A n \in Names(sheetData) \cup Names(localCards) : Occurrences(merged, n) = 1
    /\ Len(merged) >= Cardinality(Names(sheetData) \cup Names(localCards))

\* C7: merging the same sheet rows against the previous merge result gives
\* the previous merge result again, element by element
C7_MergeIdempotent == phase = "remerged" => remerged = merged

\* C8: where a sheet row is strictly newer than the local card of its name
\* (an absent local timestamp counting as 0), the output entity for that row
\* has the row's decoded assignment, decoded trimmed flag, timestamp and id
C8_NewerRemoteWins ==
  Merged =>
    \A i \in 1..Len(sheetData), j \in 1..Len(localCards) :
      Matched(i, j) /\ SheetNewer(i, j) =>
        /\ merged[i].cardName = sheetData[i].cardName
        /\ merged[i].assignment = integerToAssignment(sheetData[i].assignment)
        /\ merged[i].trimmed = (sheetData[i].trimmed = 1)
        /\ merged[i].lastUpdated = sheetData[i].lastUpdated
        /\ merged[i].id = sheetData[i].cardId

\* a strictly newer sheet row met a local card that differs from it in
\* assignment and trimmed flag
C8_Witness ==
  /\ phase = "merged"
  /\ \E i \in 1..Len(sheetData), j \in 1..Len(localCards) :
       /\ Matched(i, j) /\ SheetNewer(i, j)
       /\ localCards[j].lastUpdated # NoTime
       /\ localCards[j].assignment # integerToAssignment(sheetData[i].assignment)
       /\ localCards[j].trimmed # (sheetData[i].trimmed = 1)

\* C9: where a sheet row is not strictly newer than the local card of its
\* name, the output entity has the local assignment, notes, trimmed flag and
\* timestamp; its id is the row's id when the row has one and stays the local
\* id when the row's id is absent or empty
C9_LocalWins ==
  Merged =>
    \A i \in 1..Len(sheetData), j \in 1..Len(localCards) :
      Matched(i, j) /\ ~SheetNewer(i, j) =>
        /\ merged[i].assignment = localCards[j].assignment
        /\ merged[i].notes = localCards[j].notes
        /\ merged[i].trimmed = localCards[j].trimmed
        /\ merged[i].lastUpdated = localCards[j].lastUpdated
        /\ IdOf(merged[i].id) = IF IdOf(sheetData[i].cardId) # ""
                                THEN sheetData[i].cardId
                                ELSE IdOf(localCards[j].id)

\* C10: under both strategies the output entity of a sheet row that has a
\* local card of its name carries that card's notes
C10_NotesPreserved ==
  Merged =>
    \A i \in 1..Len(sheetData), j \in 1..Len(localCards) :
      Matched(i, j) =>
        /\ merged[i].notes = localCards[j].notes
        /\ mergedUseSheet[i].notes = localCards[j].notes

\* a local card with notes met a strictly newer sheet row
C10_Witness ==
  /\ phase = "merged"
  /\ \E i \in 1..Len(sheetData), j \in 1..Len(localCards) :
       /\ Matched(i, j) /\ SheetNewer(i, j)
       /\ localCards[j].notes = "ok"
       /\ mergedUseSheet[i].assignment # localCards[j].assignment

\* row i of the sheet has no local card of its name
SheetOnly(i) == \A j \in 1..Len(localCards) : ~Matched(i, j)
\* local card j has no sheet row of its name
LocalOnlyCard(j) == \A i \in 1..Len(sheetData) : ~Matched(i, j)

\* C11: under use-sheet the output entity of every sheet row has the row's
\* name, decoded assignment, decoded trimmed flag, timestamp and id, whatever
\* the local timestamp is; its notes are the notes of the local card of that
\* name, or empty when there is none
C11_UseSheet ==
  Merged =>
    \A i \in 1..Len(sheetData) :
      /\ mergedUseSheet[i].cardName = sheetData[i].cardName
      /\ mergedUseSheet[i].assignment = integerToAssignment(sheetData[i].assignment)
      /\ mergedUseSheet[i].trimmed = (sheetData[i].trimmed = 1)
      /\ mergedUseSheet[i].lastUpdated = sheetData[i].lastUpdated
      /\ mergedUseSheet[i].id = sheetData[i].cardId
      /\ SheetOnly(i) => mergedUseSheet[i].notes = ""
      /\ \A j \in 1..Len(localCards) :
           Matched(i, j) => mergedUseSheet[i].notes = localCards[j].notes

\* a sheet row met a strictly newer local card that differs from it in
\* assignment, and newer-wins kept the local assignment
C11_Witness ==
  /\ phase = "merged"
  /\ \E i \in 1..Len(sheetData), j \in 1..Len(localCards) :
       /\ Matched(i, j)
       /\ LocalTime(localCards[j]) > sheetData[i].lastUpdated
       /\ localCards[j].assignment # integerToAssignment(sheetData[i].assignment)
       /\ merged[i].assignment = localCards[j].assignment
       /\ mergedUseSheet[i].assignment # localCards[j].assignment

\* C12: in newer-wins merge the output entity of a sheet row that has no
\* local card of its name has the row's name, decoded assignment, decoded
\* trimmed flag, timestamp and id, and empty notes
C12_SheetOnlyRow ==
  Merged =>
    \A i \in 1..Len(sheetData) :
      SheetOnly(i) =>
        /\ merged[i].cardName = sheetData[i].cardName
        /\ merged[i].assignment = integerToAssignment(sheetData[i].assignment)
        /\ merged[i].trimmed = (sheetData[i].trimmed = 1)
        /\ merged[i].notes = ""
        /\ merged[i].lastUpdated = sheetData[i].lastUpdated
        /\ merged[i].id = sheetData[i].cardId

\* a trimmed, assigned sheet row was merged next to a local card of another name
C12_Witness ==
  /\ phase = "merged"
  /\ Len(localCards) > 0
  /\ \E i \in 1..Len(sheetData) :
       /\ SheetOnly(i)
       /\ sheetData[i].trimmed = 1
       /\ sheetData[i].assignment = 2

\* C13: under both strategies every local card that has no sheet row of its
\* name appears exactly once in the output, with every field as in the input
C13_LocalOnlyPassThrough ==
  Merged =>
    \A j \in 1..Len(localCards) :
      LocalOnlyCard(j) =>
        /\ \E k \in 1..Len(merged) : merged[k] = localCards[j]
        /\ \E k \in 1..Len(mergedUseSheet) : mergedUseSheet[k] = localCards[j]
        /\ Occurrences(merged, localCards[j].cardName) = 1
        /\ Occurrences(mergedUseSheet, localCards[j].cardName) = 1

\* a local card with an id and notes passed through next to sheet rows of
\* another name
C13_Witness ==
  /\ phase = "merged"
  /\ Len(sheetData) > 0
  /\ \E j \in 1..Len(localCards) :
       /\ LocalOnlyCard(j)
       /\ localCards[j].id # Undefined
       /\ localCards[j].notes # ""

(***************************************************************************)
(* Properties of the sync orchestration (Spec)                             *)
(***************************************************************************)
InFlightCount == Copies(tasks, InFlight)
SyncTasks(b) == {r \in DOMAIN b : r.kind = "sync"}
\* a suspended sync() took part in the step: it advanced, ended or was marked
SyncMoved == \E r \in SyncTasks(tasks) : CopiesIn(r, tasks') < CopiesIn(r, tasks)
FailedSync(e) == e.op = "reject" /\ e.kind = "sync"
\* IndexedDB holds, for every name of the save arguments, the assignment,
\* notes and trimmed flag of the last argument of that name
Holds(d, saves) ==
  \A i \in 1..Len(saves) :
    LET e == MapGet(saves, saves[i].cardName)
    IN /\ d[e.cardName] # NoCard
       /\ d[e.cardName].assignment = e.assignment
       /\ d[e.cardName].notes = e.notes
       /\ d[e.cardName].trimmed = e.trimmed

\* C1: at most one sync() or autoSync() is in flight at any time
C1_SingleFlight == InFlightCount <= 1

\* C2: while the session is in its first-sync state, no step saves a merged
\* entity, posts rows or finishes a sync unless it belongs to a sync() that
\* was started with a confirmed merge strategy
C2_FirstConnectionGate ==
  (ev.op \in {"persist", "post", "finish"} /\ ev.gate) => ev.strategy # "none"

C4_SyncSuccess ==
  (ev.op = "finish" /\ ev.kind = "sync") =>
    /\ ~isSyncing
    /\ error = Null
    /\ hasSyncedBefore /\ localStorage.hasSynced
    /\ lastSyncTime = now /\ localStorage.lastSyncTime = now

\* C5: when the push of a sync() fails after its save loop has ended, and no
\* other writer changed a card since that sync's merge, IndexedDB holds the
\* merged assignment, notes and trimmed flag for every name of the merge
\* output, and the failing step leaves hasSyncedBefore as it was; the same
\* values are held from the end of the save loop on
C5_NoRollback ==
  [][/\ \A r \in SyncTasks(tasks) :
          (r.pc \in {"reload", "push", "post"} /\ r.clean) => Holds(db, r.merged)
     /\ (FailedSync(ev') /\ ev'.step = "push" /\ ev'.clean) =>
          /\ \E r \in SyncTasks(tasks) :
               /\ r.pc \in {"reload", "push", "post"} /\ r.clean
               /\ r.strategy = ev'.strategy
               /\ CopiesIn(r, tasks') < CopiesIn(r, tasks)
               /\ Len(r.merged) > 0
               /\ Holds(db', r.merged)
          /\ hasSyncedBefore' = hasSyncedBefore
          /\ localStorage'.hasSynced = localStorage.hasSynced]_vars

\* the push of a first sync failed after the sheet's assignment and trimmed
\* flag had been merged and saved: they are still stored, the session is
\* still unsynced
C5_Witness ==
  /\ FailedSync(ev)
  /\ ev.step = "push"
  /\ ev.clean
  /\ ~hasSyncedBefore
  /\ db["Dishes"].assignment = "player2"
  /\ db["Dishes"].trimmed

(***************************************************************************)
(* Properties of two clients and their sheet (DeviceSpec)                  *)
(***************************************************************************)
\* C14: a sync() of a client replaces the assignment or trimmed flag that a
\* user edit of that client stored only by a sheet value that stems from a
\* later user edit
C14_RecentEditsProtected ==
  [][(moved'.op = "sync" /\ moved'.strategy = "none") =>
       \A c \in Clients, n \in CardNames :
         (/\ moved'.client = c
          /\ stems[c][n] > 0
          /\ devices[c][n] # NoCard
          /\ \/ devices'[c][n].assignment # devices[c][n].assignment
             \/ devices'[c][n].trimmed # devices[c][n].trimmed)
         => stems'[c][n] > stems[c][n]]_vars

(***************************************************************************)
(* Properties of the debounced auto-sync (DebounceSpec)                    *)
(***************************************************************************)
\* call i is the last of a group of calls in which each came less than the
\* delay after the one before
LastOfGroup(i) == i = Len(calls) \/ calls[i + 1] - calls[i] >= DebounceDelay
\* the autoSync invocations made when call i was the latest call
InvokedAfter(i) == {j \in 1..Len(invoked) : invoked[j].after = i}

\* C15: of calls that each come less than the delay after the one before, only
\* the last leads to an autoSync invocation; it leads to exactly one once its
\* timer is gone, and that one is made no earlier than the delay after it
C15_DebounceCollapse ==
  \A i \in 1..Len(calls) :
    IF LastOfGroup(i) /\ ~\E t \in timers : t.id = i
    THEN /\ Cardinality(InvokedAfter(i)) = 1
         /\ \A j \in InvokedAfter(i) : invoked[j].at >= calls[i] + DebounceDelay
    ELSE InvokedAfter(i) = {}

\* three calls within one delay have led to their one invocation
C15_Witness ==
  /\ Len(calls) = 3
  /\ calls[3] - calls[1] < DebounceDelay
  /\ Len(invoked) = 1
  /\ invoked[1].after = 3

\* the last call of the group call i belongs to
RECURSIVE GroupEnd(_)
GroupEnd(i) == IF LastOfGroup(i) THEN i ELSE GroupEnd(i + 1)

\* C16: once the single autoSync of a group of collapsed calls has settled the
\* promise of the last call, the promise of every call of the group has
\* settled the same way
C16_PromisesShareOutcome ==
  \A i \in 1..Len(calls) :
    promises[GroupEnd(i)] # "pending" => promises[i] = promises[GroupEnd(i)]

\* C17: an autoSync invoked without an endpoint or while isSyncing is set
\* returns without raising (its caller's promise resolves), starts no request,
\* leaves isSyncing, error, lastSyncTime and hasSyncedBefore as they are, and
\* sets no timer for a later attempt
C17_AutoSyncNoOp ==
  [][(Len(invoked') > Len(invoked) /\ (googleSheetUrl = "" \/ isSyncing))
       => /\ UNCHANGED <<isSyncing, error, lastSyncTime, hasSyncedBefore>>
          /\ runs' = runs
          /\ promises'[invoked'[Len(invoked')].id] = "resolved"
          /\ timers' \subseteq timers]_vars

\* an autoSync was skipped because a sync was in progress, which has since
\* failed
C17_Witness ==
  /\ googleSheetUrl # ""
  /\ error # Null
  /\ \E j \in 1..Len(invoked) : invoked[j].skipped

(***************************************************************************)
(* More properties of the sync orchestration (Spec)                        *)
(***************************************************************************)
AutoTasks(b) == {r \in BagToSet(b) : r.kind = "auto"}

\* C18: an autoSync that runs is never at the pull, the save loop or the
\* reload of sync() and holds no merge result; the step that starts it and the
\* steps it takes (POST sent, finished, failed) belong to the push and leave
\* every card in IndexedDB as it is, lastUpdated included
C18_AutoSyncWriteOnly ==
  [][/\ \A r \in AutoTasks(tasks') : r.pc \in {"push", "post"} /\ r.merged = <<>>
     /\ Copies(tasks', AutoTasks(tasks')) > Copies(tasks, AutoTasks(tasks)) => db' = db
     /\ ev'.kind = "auto" => (db' = db /\ ev'.step = "push")]_vars

\* an autoSync has run to its end at a time later than the stamps of the cards
C18_Witness ==
  /\ ev.kind = "auto"
  /\ ev.op = "finish"
  /\ \E n \in CardNames : db[n] # NoCard /\ db[n].lastUpdated < now

(***************************************************************************)
(* Properties of configuring the endpoint (StoreSpec)                      *)
(***************************************************************************)
\* a step that set the endpoint to a url that is not blank
SetsUrl(e) ==
  /\ e.op \in {"setGoogleSheetUrl", "handleSave"}
  /\ ~e.failed
  /\ trim(e.input) # ""

\* C19: setting a url other than the stored one clears hasSyncedBefore in the
\* store and in localStorage, so that isFirstSync holds; setting the stored url
\* again leaves both as they are
C19_UrlChangeResetsHandshake ==
  [][SetsUrl(ev') =>
       IF trim(ev'.input) # googleSheetUrl
       THEN /\ ~hasSyncedBefore'
            /\ ~localStorage'.hasSynced
            /\ isFirstSync'
       ELSE /\ hasSyncedBefore' = hasSyncedBefore
            /\ localStorage'.hasSynced = localStorage.hasSynced]_vars

\* after a sync with one endpoint another endpoint was set
C19_Witness ==
  /\ SetsUrl(ev)
  /\ googleSheetUrl = "u2"
  /\ lastSyncTime # NoTime
  /\ ~hasSyncedBefore

\* C20: every entry point that is given a string that is no well-formed
\* absolute url reports an error and leaves the url, hasSyncedBefore and
\* lastSyncTime as they are, in the store and in localStorage
C20_EndpointValidation ==
  [][(ev'.op \in {"setGoogleSheetUrl", "handleSave"} /\ ~isValidUrl(trim(ev'.input)))
       => /\ ev'.failed
          /\ UNCHANGED <<googleSheetUrl, hasSyncedBefore, lastSyncTime, localStorage>>]_vars

\* C21: the step that disconnects the endpoint ends with the url empty,
\* hasSyncedBefore false and lastSyncTime null, in the store and in
\* localStorage; being one step, no state in between shows only some cleared
C21_Disconnect ==
  [][ev'.op = "clearGoogleSheetUrl"
       => /\ googleSheetUrl' = ""
          /\ ~hasSyncedBefore'
          /\ lastSyncTime' = NoTime
          /\ localStorage' = [url |-> "", hasSynced |-> FALSE, lastSyncTime |-> NoTime]]_vars

\* the endpoint was disconnected while a sync that had started with it was
\* still running
C21_Witness ==
  /\ ev.op = "clearGoogleSheetUrl"
  /\ isSyncing
  /\ googleSheetUrl = ""

\* C22: the step that cancels the first-connection dialog leaves the url
\* empty, hasSyncedBefore false and lastSyncTime null, changes no card and
\* starts nothing; the preview pull that opened the dialog only ever pulled
\* and changed no card on its return
C22_CancelHandshake ==
  [][/\ ev'.op = "cancel"
          => /\ googleSheetUrl' = "" /\ ~hasSyncedBefore' /\ lastSyncTime' = NoTime
             /\ localStorage' = [url |-> "", hasSynced |-> FALSE, lastSyncTime |-> NoTime]
             /\ db' = db
             /\ tasks' = tasks
     /\ ev'.kind = "preview" => (db' = db /\ ev'.op = "previewed")
     /\ \A r \in BagToSet(tasks') : r.kind = "preview" => r.pc = "pull"]_vars

\* the dialog was cancelled after an edit had been stored
C22_Witness ==
  /\ ev.op = "cancel"
  /\ googleSheetUrl = ""
  /\ db["Dishes"] # NoCard
  /\ db["Dishes"].assignment = "player1"

(***************************************************************************)
(* Properties of the rows syncToSheet builds (PushSpec)                    *)
(***************************************************************************)
\* C23: no row built for the sheet carries the name of an informational card,
\* whatever the card holds in IndexedDB, an id included
C23_InformationalNeverPushed ==
  \A i \in 1..Len(payload) : payload[i].cardName \notin INFORMATIONAL_CARDS

\* rows were built while an informational card with an id and an assignment
\* was stored next to a card that was sent
C23_Witness ==
  /\ phase = "built"
  /\ Len(payload) = 1
  /\ \E n \in INFORMATIONAL_CARDS \cap CardNames :
       /\ stored[n] # NoCard
       /\ ~IdMissing(stored[n])
       /\ stored[n].assignment = "player1"

Assignments == {"unassigned", "player1", "player2", "shared"}

\* C26: encoding the decoding of a code in 0..3 gives the code back, decoding
\* the encoding of an assignment gives the assignment back, and a code outside
\* 0..3 is decoded as unassigned; so the assignments read back from the rows
\* that were built are those of the cards they were built from
C26_AssignmentRoundTrip ==
  /\ \A n \in 0..3 : assignmentToInteger(integerToAssignment(n)) = n
  /\ \A a \in Assignments : integerToAssignment(assignmentToInteger(a)) = a
  /\ \A n \in CodeInputs \ (0..3) : integerToAssignment(n) = "unassigned"
  /\ phase = "decoded"
       => /\ code \in 0..3 => recoded = code
          /\ code \notin 0..3 => recoded = 0
          /\ \A i \in 1..Len(payload) :
               decoded[i] = stored[payload[i].cardName].assignment

\* the code of shared went through both conversions, and so did a shared card
C26_Witness ==
  /\ phase = "decoded"
  /\ code = 3
  /\ recoded = 3
  /\ \E i \in 1..Len(decoded) : decoded[i] = "shared"

(***************************************************************************)
(* More properties of configuring the endpoint (StoreSpec)                 *)
(***************************************************************************)
\* C27: a restart, also in the middle of a sync, leaves isSyncing false and
\* the url, hasSyncedBefore, lastSyncTime and the last error as they were
\* just before it
C27_SessionPersists ==
  [][ev'.op = "restart"
       => /\ ~isSyncing'
          /\ googleSheetUrl' = googleSheetUrl
          /\ hasSyncedBefore' = hasSyncedBefore
          /\ lastSyncTime' = lastSyncTime
          /\ error' = error]_vars

(***************************************************************************)
(* More properties of two clients and their sheet (DeviceSpec)             *)
(***************************************************************************)
\* C24: whatever id backfills, syncs under either strategy (also against a
\* sheet with a row named like an informational card) and imports have run,
\* no informational card in a client's IndexedDB has an id
C24_InformationalNeverHasId ==
  \A c \in Clients, n \in INFORMATIONAL_CARDS \cap CardNames : IdMissing(devices[c][n])

\* a sync has stored the informational card of a sheet row that carries an id
C24_Witness ==
  /\ moved.op = "sync"
  /\ \E i \in 1..Len(sheet) : sheet[i].cardName \in INFORMATIONAL_CARDS /\ sheet[i].cardId # ""
  /\ \E n \in INFORMATIONAL_CARDS \cap CardNames :
       /\ devices[moved.client][n] # NoCard
       /\ devices[moved.client][n].assignment = "player1"

\* the rows of a payload that carry the name
RowsNamed(data, n) == {i \in 1..Len(data) : data[i].cardName = n}

\* C25: the rows a sync sends are the cards in IndexedDB that should have an
\* id, one row each, with the card's id, assignment code, trimmed code and
\* lastUpdated; so every such card the save loop has stored is sent
C25_PayloadComplete ==
  [][moved'.op = "sync" =>
       LET d == devices'[moved'.client]
           data == moved'.data
       IN /\ \A i \in 1..Len(data) :
               shouldCardHaveId(data[i].cardName) /\ d[data[i].cardName] # NoCard
          /\ \A n \in CardNames :
               (d[n] # NoCard /\ shouldCardHaveId(n))
                 => /\ Cardinality(RowsNamed(data, n)) = 1
                    /\ \A i \in RowsNamed(data, n) :
                         /\ data[i].cardId = d[n].id
                         /\ data[i].assignment = assignmentToInteger(d[n].assignment)
                         /\ data[i].trimmed = (IF d[n].trimmed THEN 1 ELSE 0)
                         /\ data[i].lastUpdated = d[n].lastUpdated]_vars

StoredNames(d) == {n \in CardNames : d[n] # NoCard}

\* C28: no step of a client other than the import, which wipes (edits, id
\* backfill on load, autoSync, sync under either strategy, ended well or
\* failed), removes a card from its IndexedDB
C28_NoNameLost ==
  [][moved'.op # "import"
       => \A c \in Clients : StoredNames(devices[c]) \subseteq StoredNames(devices'[c])]_vars

\* a sync has failed while the client held an informational card next to the
\* card that syncs
C28_Witness ==
  /\ moved.op = "failed"
  /\ StoredNames(devices[moved.client]) = CardNames

\* C30: once both clients have completed a sync, each holds for a card that
\* has a row with an id in the sheet that id, and a later sync leaves the id
\* a client holds as it is
C30_IdsAgree ==
  [][/\ synced' = Clients
          => \A c \in Clients, i \in 1..Len(sheet') :
               (sheet'[i].cardId # "" /\ shouldCardHaveId(sheet'[i].cardName))
                 => /\ devices'[c][sheet'[i].cardName] # NoCard
                    /\ IdOf(devices'[c][sheet'[i].cardName].id) = sheet'[i].cardId
     /\ (synced = Clients /\ moved'.op = "sync")
          => \A c \in Clients, n \in CardNames :
               devices[c][n] # NoCard
                 => IdOf(devices'[c][n].id) = IdOf(devices[c][n].id)]_vars

\* the answer is a page of HTML: by its content-type or by its body
IsHtml(r) ==
  \/ r.contentType = "text/html; charset=utf-8"
  \/ r.body \in {"<html>", "  <html>"}

\* an endpoint is set, the answer arrived with a success status, is not
\* HTML, and its body is the JSON of an array
GoodPull ==
  /\ endpoint # ""
  /\ response.network
  /\ response.ok
  /\ ~IsHtml(response)
  /\ response.body = "[rows]"

\* C29: syncFromSheet returns rows only when the endpoint is set, the status
\* is success, the response is not HTML by content-type or by a body that
\* starts with '<', and the body is the JSON of an array; in every other case
\* it throws, for HTML with a message that is neither the one of a failed
\* request or status nor the one of a parse failure, and with no endpoint it
\* sends no request.
C29_PullFailureCases ==
  phase \in {"pulled", "seen"} =>
    /\ pulled.result = "rows" <=> GoodPull
    /\ ~GoodPull => pulled.result = "error"
    /\ endpoint # "" /\ response.network /\ response.ok /\ IsHtml(response)
         => pulled.message \notin {"Failed to fetch",
                                   "Failed to sync from sheet",
                                   "Failed to parse response as JSON",
                                   "Invalid response from sheet: expected array",
                                   ""}
    /\ endpoint = "" => ~pulled.requested

\* a JSON content-type on a body of HTML that starts with blanks is refused
\* as HTML
C29_Witness ==
  /\ phase = "pulled"
  /\ endpoint # ""
  /\ response.ok
  /\ response.contentType = "application/json"
  /\ response.body = "  <html>"
  /\ pulled.message = "Received HTML instead of JSON"

\* C31: after a run of migrateCardsToIncludeUuids every stored card that
\* should have an id has one and needsUuidMigration is false; a second run
\* returns 0, and a card that had an id before a run has the same id after it.
C31_IdempotentBackfill ==
  Len(updatedCounts) >= 1 =>
    /\ \A n \in CardNames :
         cardStore[n] # NoCard /\ shouldCardHaveId(n) => ~IdMissing(cardStore[n])
    /\ ~needsUuidMigration(cardStore)
    /\ Len(updatedCounts) >= 2 => updatedCounts[2] = 0
    /\ \A n \in CardNames :
         ~IdMissing(previous[n]) => cardStore[n].id = previous[n].id

\* the local cards whose name no sheet row carries, in the order of the
\* local list
Unmatched ==
  SelectSeq(localCards,
            LAMBDA c : \A i \in 1..Len(sheetData) : sheetData[i].cardName # c.cardName)

\* output m starts with one entity per sheet row, in row order, and ends with
\* the unmatched local cards, in local order
RowsThenLocals(m) ==
  /\ Len(m) = Len(sheetData) + Len(Unmatched)
  /\ \A i \in 1..Len(sheetData) : m[i].cardName = sheetData[i].cardName
  /\ \A k \in 1..Len(Unmatched) : m[Len(sheetData) + k] = Unmatched[k]

\* C32: under both strategies the merge output lists first one entity per
\* sheet row in the order of the rows, then the local cards that have no row
\* in the order of the local list.
C32_MergeOutputOrder ==
  phase \in {"merged", "remerged"} =>
    RowsThenLocals(merged) /\ RowsThenLocals(mergedUseSheet)

\* the row of the card that is second in the local list comes before the
\* local-only card that is first in it
C32_Witness ==
  /\ phase = "merged"
  /\ Len(sheetData) = 1
  /\ sheetData[1].cardName = "Laundry"
  /\ Len(localCards) = 2
  /\ localCards[1].cardName = "Dishes"
  /\ Len(merged) = 2
  /\ merged[1].cardName = "Laundry"
  /\ merged[2] = localCards[1]
  /\ mergedUseSheet[2] = localCards[1]

\* C33: a value the user gave the card after sync() had read the local cards
\* and before sync() saved its merge result is the value stored when the
\* save loop of sync() has ended.
C33_NoLostLocalEdit ==
  syncRun.pc \in {"reload", "push"} =>
    \A f \in EditFields : edited[f] # Null => idb["Dishes"][f] = edited[f]

\* C34: with an endpoint that has been synced before and requests that all
\* succeed, the edit of the user leads to a POST of rows that is built while
\* the card holds the edited value, whether or not a sync is in progress when
\* the edit is made or when its timer fires.
C34_EditEventuallyPushed ==
  (phase = "edited") ~> (ev.op = "post" /\ db["Dishes"].assignment = "player1")

\* C35: whenever no endpoint is configured, hasSyncedBefore is false and
\* lastSyncTime is null, in the store and in localStorage, also after an
\* operation that was in flight when the endpoint was cleared has completed.
C35_DisconnectedSessionClean ==
  /\ googleSheetUrl = "" => ~hasSyncedBefore /\ lastSyncTime = NoTime
  /\ localStorage.url = "" =>
       ~localStorage.hasSynced /\ localStorage.lastSyncTime = NoTime

\* the merge result of the sync that client c runs in this step
MergeOf(c, strategy) ==
  IF strategy # "none"
  THEN mergeCardDataWithPreference(doGet(sheet, now), getAllCards(devices[c]), strategy)
  ELSE mergeCardData(doGet(sheet, now), getAllCards(devices[c]))

\* the sync left assignment, notes and trimmed of the card as they were
SameValues(c, n) ==
  /\ devices[c][n] # NoCard
  /\ devices'[c][n].assignment = devices[c][n].assignment
  /\ devices'[c][n].notes = devices[c][n].notes
  /\ devices'[c][n].trimmed = devices[c][n].trimmed

\* C36: after a sync every card in IndexedDB has the lastUpdated of its
\* entity in the merge result, and a card whose assignment, notes and trimmed
\* flag the sync did not change keeps its lastUpdated.
C36_PersistKeepsTimestamp ==
  [][moved'.op = "sync" =>
       LET c == moved'.client
           m == MergeOf(c, moved'.strategy)
       IN /\ \A i \in 1..Len(m) :
               devices'[c][m[i].cardName].lastUpdated = m[i].lastUpdated
          /\ \A n \in CardNames :
               SameValues(c, n) =>
                 devices'[c][n].lastUpdated = devices[c][n].lastUpdated]_vars

\* the sheet holds a row with the id of the card and its assignment code,
\* trimmed code and lastUpdated
RowAgrees(cells, card) ==
  \E i \in 1..Len(cells) :
    /\ cells[i].cardId = card.id
    /\ cells[i].assignment = assignmentToInteger(card.assignment)
    /\ cells[i].trimmed = (IF card.trimmed THEN 1 ELSE 0)
    /\ cells[i].lastUpdated = card.lastUpdated

\* C37: when a sync of a client has completed, with no edit and no write of
\* the other client during it, the sheet holds for every card of the client
\* that should have an id a row with the id, assignment code, trimmed code
\* and lastUpdated of that card.
C37_LocalAndRemoteAgree ==
  [][moved'.op = "sync" =>
       \A n \in CardNames :
         LET card == devices'[moved'.client][n]
         IN card # NoCard /\ shouldCardHaveId(n) => RowAgrees(sheet', card)]_vars

\* C38: a sync or autoSync reaches finishSync only when its rows were posted
\* and applied by the endpoint; a syncToSheet that returns because no card
\* was eligible does not complete the sync.
C38_SuccessOnlyForAppliedPush ==
  [][ev'.op = "finish" =>
       \E r \in InFlight : r.pc = "post" /\ tasks' = Resume(tasks, r)]_vars

====
